---- MODULE Spec2Model ----
(***************************************************************************)
(* Email lead parser: the event-driven Lambda handler                      *)
(* (src/src/handlers/lambda_handler.py) with the services it calls: the    *)
(* retry wrapper, the storage and queue services, the email processing     *)
(* engine, configuration load and the metrics flush.                       *)
(*                                                                         *)
(* One process serves invocations one after the other.  An invocation is   *)
(* Invoke (configuration, classification of the event), one HandleRecord   *)
(* per entry of Records, Complete (the 200 response), Flush (the finally   *)
(* block) and Return.  Calls to the cloud client are inputs: each call of  *)
(* a service draws the behaviour of the client for that call.  The service *)
(* singletons are taken to be constructed; what recording a metric does is *)
(* an input of the call that records it.                                   *)
(***************************************************************************)
EXTENDS Integers, Sequences, FiniteSets, TLC

(***************************************************************************)
(* Bounds of the model.                                                    *)
(***************************************************************************)
MaxRecords == 2        \* longest Records list of an event
MaxInvocations == 2    \* invocations served by one process
MaxTransient == 3      \* most transient failures the client shows in a row
MaxAttempts == 3       \* largest max_attempts of a retry configuration
MaxThreshold == 2      \* largest failure and success threshold of a breaker
MaxRecovery == 2       \* longest recovery timeout of a breaker, in clock ticks
MaxTime == 6           \* last tick of the clock
MaxFailures == 4       \* most failures a breaker is made to count
MaxLeads == 23         \* longest list handed to send_batch_messages
MaxIds == 2            \* most deduplication ids derived for a pair of leads
MaxObjects == 2        \* longest bucket listing the legacy handler walks
MaxServed == 2         \* invocations a process serves while its log is watched
MaxEvents == 4         \* log events watched
MaxPhoneLen == 8       \* longest run of '+', digits and hyphens in a phone string
MaxCustomRules == 1    \* most rules added to a detector with add_custom_rule
MaxOccurrences == 2    \* most occurrences of a rule's content patterns in an email
MaxInstances == 3      \* parser instances a registry builds
MaxPuts == 11          \* metrics the services record in one invocation
MaxTimeout == 2        \* largest timeout of a breaker, in clock ticks

(***************************************************************************)
(* Error taxonomy (src/src/utils/exceptions.py).  An exception is a record *)
(* of its class, its taxonomy code ("" for a class outside the taxonomy),  *)
(* whether it carries a details map, and the class of its cause.           *)
(***************************************************************************)
NoExc == [type |-> "none", code |-> "", cause |-> "none"]

\* Classes deriving from BaseEmailParserException.
BaseEmailParserException ==
    {"BaseEmailParserException", "ConfigurationError", "EmailProcessingError",
     "LeadParsingError", "AWSServiceError", "ValidationError",
     "ProcessingTimeoutError", "RetryExhaustedError"}

\* The cloud SDK's exception classes and the builtin raised by load_config.
ClientError == {"ClientError"}
NoCredentialsError == {"NoCredentialsError"}

isinstance(exc, classes) == exc.type \in classes

AWSServiceError(code, cause) ==
    [type |-> "AWSServiceError", code |-> code, cause |-> cause.type]

RetryExhaustedError(max_attempts, last_error) ==
    [type |-> "RetryExhaustedError", code |-> "RETRY_EXHAUSTED",
     cause |-> last_error.type, max_attempts |-> max_attempts]

EmailProcessingError(message, code) ==
    [type |-> "EmailProcessingError", code |-> code, cause |-> "none",
     message |-> message]

\* str() of an exception: its message where the model keeps one.
Message(exc) == IF "message" \in DOMAIN exc THEN exc.message ELSE exc.code

\* The adapter: a domain error passes through, the SDK's missing-credentials
\* error becomes access-denied, anything else the generic unknown error.
handle_exception(exc) ==
    IF isinstance(exc, BaseEmailParserException) THEN exc
    ELSE IF exc.type = "NoCredentialsError"
         THEN AWSServiceError("S3_ACCESS_DENIED", exc)
    ELSE [type |-> "BaseEmailParserException", code |-> "UNKNOWN_ERROR",
          cause |-> exc.type]

(***************************************************************************)
(* Retry (src/src/utils/retry.py).                                         *)
(***************************************************************************)
\* The configuration the @retry decorator of the services builds.
ServiceRetryConfig ==
    [max_attempts |-> 3,
     retryable_exceptions |-> ClientError,
     non_retryable_exceptions |-> NoCredentialsError]

\* A test that asks for the retryable kinds first.
should_retry_retryable_first(config, exception, attempt) ==
    IF attempt >= config.max_attempts THEN FALSE
    ELSE IF isinstance(exception, config.retryable_exceptions) THEN TRUE
    ELSE FALSE

should_retry(config, exception, attempt) ==
    IF attempt >= config.max_attempts THEN FALSE
    ELSE IF isinstance(exception, config.non_retryable_exceptions) THEN FALSE
    ELSE IF isinstance(exception, config.retryable_exceptions) THEN TRUE
    ELSE FALSE

\* What one call of the wrapped function did: returned value, or raised exc.
Returned(v) == [raised |-> FALSE, value |-> v, exc |-> NoExc]
Raised(e) == [raised |-> TRUE, value |-> "none", exc |-> e]

\* A loop that waits after every failure, the last one included.
RECURSIVE retry_loop_waits_always(_, _, _, _, _, _)
retry_loop_waits_always(config, outs, attempt, calls, sleeps, last_exception) ==
    IF attempt > config.max_attempts
    THEN [raised |-> TRUE, value |-> "none",
          exc |-> RetryExhaustedError(config.max_attempts, last_exception),
          calls |-> calls, sleeps |-> sleeps]
    ELSE LET o == outs[attempt] IN
         IF ~o.raised
         THEN [raised |-> FALSE, value |-> o.value, exc |-> NoExc,
               calls |-> calls + 1, sleeps |-> sleeps]
         ELSE IF ~should_retry(config, o.exc, attempt)
         THEN [raised |-> TRUE, value |-> "none",
               exc |-> RetryExhaustedError(config.max_attempts, o.exc),
               calls |-> calls + 1, sleeps |-> sleeps + 1]
         ELSE retry_loop_waits_always(config, outs, attempt + 1, calls + 1,
                                      sleeps + 1, o.exc)

\* A loop that lets a failure it does not retry out as it is.
RECURSIVE retry_loop_reraises(_, _, _, _, _, _)
retry_loop_reraises(config, outs, attempt, calls, sleeps, last_exception) ==
    IF attempt > config.max_attempts
    THEN [raised |-> TRUE, value |-> "none",
          exc |-> RetryExhaustedError(config.max_attempts, last_exception),
          calls |-> calls, sleeps |-> sleeps]
    ELSE LET o == outs[attempt] IN
         IF ~o.raised
         THEN [raised |-> FALSE, value |-> o.value, exc |-> NoExc,
               calls |-> calls + 1, sleeps |-> sleeps]
         ELSE IF ~should_retry(config, o.exc, attempt)
         THEN IF attempt < config.max_attempts
              THEN [raised |-> TRUE, value |-> "none", exc |-> o.exc,
                    calls |-> calls + 1, sleeps |-> sleeps]
              ELSE [raised |-> TRUE, value |-> "none",
                    exc |-> RetryExhaustedError(config.max_attempts, o.exc),
                    calls |-> calls + 1, sleeps |-> sleeps]
         ELSE retry_loop_reraises(config, outs, attempt + 1, calls + 1,
                                  IF attempt < config.max_attempts
                                  THEN sleeps + 1 ELSE sleeps,
                                  o.exc)

\* The for loop of execute_with_retry from `attempt` on.  outs[i] is what the
\* i-th call of the function does; calls and sleeps count what happened so far.
RECURSIVE retry_loop(_, _, _, _, _, _)
retry_loop(config, outs, attempt, calls, sleeps, last_exception) ==
    IF attempt > config.max_attempts
    THEN [raised |-> TRUE, value |-> "none",
          exc |-> RetryExhaustedError(config.max_attempts, last_exception),
          calls |-> calls, sleeps |-> sleeps]
    ELSE LET o == outs[attempt] IN
         IF ~o.raised
         THEN [raised |-> FALSE, value |-> o.value, exc |-> NoExc,
               calls |-> calls + 1, sleeps |-> sleeps]
         ELSE IF ~should_retry(config, o.exc, attempt)
         THEN \* break, then the raise after the loop
              [raised |-> TRUE, value |-> "none",
               exc |-> RetryExhaustedError(config.max_attempts, o.exc),
               calls |-> calls + 1, sleeps |-> sleeps]
         ELSE retry_loop(config, outs, attempt + 1, calls + 1,
                         IF attempt < config.max_attempts
                         THEN sleeps + 1 ELSE sleeps,
                         o.exc)

execute_with_retry(config, outs) == retry_loop(config, outs, 1, 0, 0, NoExc)

(***************************************************************************)
(* Circuit breaker (src/src/utils/retry.py).  A breaker is the record of   *)
(* its fields; t is what time.time() returns when the method runs.         *)
(***************************************************************************)
DefaultBreakerConfig ==
    [failure_threshold |-> 5, recovery_timeout |-> 60, success_threshold |-> 3,
     timeout |-> 30]

CircuitBreaker(config) ==
    [config |-> config, state |-> "closed", failure_count |-> 0,
     success_count |-> 0, last_failure_time |-> 0]

\* A can_execute that leaves the success counter as it is.
can_execute_keeps_count(cb, t) ==
    IF cb.state = "closed" THEN [cb |-> cb, allowed |-> TRUE]
    ELSE IF cb.state = "open"
    THEN IF t - cb.last_failure_time >= cb.config.recovery_timeout
         THEN [cb |-> [cb EXCEPT !.state = "half_open"], allowed |-> TRUE]
         ELSE [cb |-> cb, allowed |-> FALSE]
    ELSE [cb |-> cb, allowed |-> TRUE]

\* can_execute: the breaker after the call and the value returned.
can_execute(cb, t) ==
    IF cb.state = "closed" THEN [cb |-> cb, allowed |-> TRUE]
    ELSE IF cb.state = "open"
    THEN IF t - cb.last_failure_time >= cb.config.recovery_timeout
         THEN [cb |-> [cb EXCEPT !.state = "half_open", !.success_count = 0],
               allowed |-> TRUE]
         ELSE [cb |-> cb, allowed |-> FALSE]
    ELSE IF cb.state = "half_open" THEN [cb |-> cb, allowed |-> TRUE]
    ELSE [cb |-> cb, allowed |-> FALSE]

\* A record_success that closes one success late.
record_success_late(cb) ==
    IF cb.state = "half_open"
    THEN IF cb.success_count + 1 > cb.config.success_threshold
         THEN [cb EXCEPT !.success_count = @ + 1, !.state = "closed", !.failure_count = 0]
         ELSE [cb EXCEPT !.success_count = @ + 1]
    ELSE IF cb.state = "closed" THEN [cb EXCEPT !.failure_count = 0]
    ELSE cb

record_success(cb) ==
    IF cb.state = "half_open"
    THEN IF cb.success_count + 1 >= cb.config.success_threshold
         THEN [cb EXCEPT !.success_count = @ + 1, !.state = "closed", !.failure_count = 0]
         ELSE [cb EXCEPT !.success_count = @ + 1]
    ELSE IF cb.state = "closed" THEN [cb EXCEPT !.failure_count = 0]
    ELSE cb

\* A record_failure that opens one failure late.
record_failure_late(cb, t) ==
    LET counted == [cb EXCEPT !.failure_count = @ + 1, !.last_failure_time = t] IN
    IF cb.state = "closed"
    THEN IF counted.failure_count > cb.config.failure_threshold
         THEN [counted EXCEPT !.state = "open"]
         ELSE counted
    ELSE IF cb.state = "half_open" THEN [counted EXCEPT !.state = "open"]
    ELSE counted

\* A record_failure that lets the trial go on.
record_failure_keeps_trial(cb, t) ==
    LET counted == [cb EXCEPT !.failure_count = @ + 1, !.last_failure_time = t] IN
    IF cb.state = "closed"
    THEN IF counted.failure_count >= cb.config.failure_threshold
         THEN [counted EXCEPT !.state = "open"]
         ELSE counted
    ELSE counted

record_failure(cb, t) ==
    LET counted == [cb EXCEPT !.failure_count = @ + 1, !.last_failure_time = t] IN
    IF cb.state = "closed"
    THEN IF counted.failure_count >= cb.config.failure_threshold
         THEN [counted EXCEPT !.state = "open"]
         ELSE counted
    ELSE IF cb.state = "half_open" THEN [counted EXCEPT !.state = "open"]
    ELSE counted

ProcessingTimeoutError ==
    [type |-> "ProcessingTimeoutError", code |-> "TIMEOUT_EXCEEDED", cause |-> "none"]

BreakerOpenError ==
    [type |-> "BaseEmailParserException", code |-> "UNKNOWN_ERROR", cause |-> "none"]

\* An execute that counts the success before it looks at the time taken.
execute_counts_first(cb, t, o, duration) ==
    LET gate == can_execute(cb, t) IN
    IF ~gate.allowed
    THEN [cb |-> gate.cb, invoked |-> FALSE, out |-> Raised(BreakerOpenError),
          recorded |-> <<>>]
    ELSE IF o.raised
    THEN [cb |-> record_failure(gate.cb, t + duration), invoked |-> TRUE,
          out |-> o, recorded |-> <<"record_failure">>]
    ELSE IF duration > cb.config.timeout
    THEN [cb |-> record_failure(record_success(gate.cb), t + duration), invoked |-> TRUE,
          out |-> Raised(ProcessingTimeoutError),
          recorded |-> <<"record_success", "record_failure">>]
    ELSE [cb |-> record_success(gate.cb), invoked |-> TRUE, out |-> o,
          recorded |-> <<"record_success">>]

\* execute at time t of a function that does o and takes `duration`: the
\* breaker afterwards, whether the function was invoked, what execute returns
\* or raises, and the record_* methods it called.
execute(cb, t, o, duration) ==
    LET gate == can_execute(cb, t) IN
    IF ~gate.allowed
    THEN [cb |-> gate.cb, invoked |-> FALSE, out |-> Raised(BreakerOpenError),
          recorded |-> <<>>]
    ELSE IF o.raised
    THEN [cb |-> record_failure(gate.cb, t + duration), invoked |-> TRUE,
          out |-> o, recorded |-> <<"record_failure">>]
    ELSE IF duration > cb.config.timeout
    THEN [cb |-> record_failure(gate.cb, t + duration), invoked |-> TRUE,
          out |-> Raised(ProcessingTimeoutError), recorded |-> <<"record_failure">>]
    ELSE [cb |-> record_success(gate.cb), invoked |-> TRUE, out |-> o,
          recorded |-> <<"record_success">>]

(***************************************************************************)
(* The cloud client.  A behaviour says what the client does on the calls   *)
(* one service operation makes: `transients` calls fail with a ClientError *)
(* whose code is neither access-denied nor not-found, and every later call *)
(* ends as `then`.  `metric` says whether recording the operation's metric *)
(* raises (the buffer reached its batch size and the automatic flush       *)
(* failed, src/src/utils/metrics.py lines 90-91 and 136-149).              *)
(***************************************************************************)
ClientOutcomes == {"ok", "NoSuchKey", "AccessDenied", "NoCredentials"}

ClientBehaviours ==
    [transients : 0..MaxTransient, then : ClientOutcomes, metric_raises : BOOLEAN]

ClientOutcome(b, attempt) ==
    IF attempt <= b.transients THEN "InternalError" ELSE b.then

\* The ClientError codes a client outcome stands for ("" : not a ClientError).
IsClientError(c) == c \in {"NoSuchKey", "AccessDenied", "InternalError"}

\* The error put_metric raises out of a failed automatic flush.
MetricsFlushError ==
    AWSServiceError("UNKNOWN_ERROR", [type |-> "ClientError"])

(***************************************************************************)
(* Storage service (src/src/services/s3_service.py).  The *_body operators *)
(* are the undecorated methods: one client call, its errors mapped.        *)
(***************************************************************************)
get_object_body(c, metric_raises) ==
    IF c = "ok"
    THEN IF metric_raises THEN Raised(handle_exception(MetricsFlushError))
         ELSE Returned("bytes")
    ELSE IF IsClientError(c)
    THEN IF metric_raises THEN Raised(MetricsFlushError)
         ELSE IF c = "NoSuchKey"
         THEN Raised(AWSServiceError("S3_OBJECT_NOT_FOUND", [type |-> "ClientError"]))
         ELSE IF c = "AccessDenied"
         THEN Raised(AWSServiceError("S3_ACCESS_DENIED", [type |-> "ClientError"]))
         ELSE Raised(AWSServiceError("UNKNOWN_ERROR", [type |-> "ClientError"]))
    ELSE IF metric_raises THEN Raised(MetricsFlushError)
         ELSE Raised(handle_exception([type |-> "NoCredentialsError"]))

delete_object_body(c, metric_raises) ==
    IF c = "ok"
    THEN IF metric_raises THEN Raised(handle_exception(MetricsFlushError))
         ELSE Returned(TRUE)
    ELSE IF IsClientError(c)
    THEN IF metric_raises THEN Raised(MetricsFlushError)
         ELSE IF c = "AccessDenied"
         THEN Raised(AWSServiceError("S3_ACCESS_DENIED", [type |-> "ClientError"]))
         ELSE IF c = "NoSuchKey"
         THEN Returned(TRUE)
         ELSE Raised(AWSServiceError("UNKNOWN_ERROR", [type |-> "ClientError"]))
    ELSE IF metric_raises THEN Raised(MetricsFlushError)
         ELSE Raised(handle_exception([type |-> "NoCredentialsError"]))

(***************************************************************************)
(* Queue service (src/src/services/sqs_service.py).                        *)
(***************************************************************************)
send_lead_message_body(c, metric_raises, message_id) ==
    IF c = "ok"
    THEN IF metric_raises THEN Raised(handle_exception(MetricsFlushError))
         ELSE Returned(message_id)
    ELSE IF IsClientError(c)
    THEN IF metric_raises THEN Raised(MetricsFlushError)
         ELSE Raised(AWSServiceError("SQS_SEND_FAILED", [type |-> "ClientError"]))
    ELSE IF metric_raises THEN Raised(MetricsFlushError)
         ELSE Raised(handle_exception([type |-> "NoCredentialsError"]))

\* The decorated methods: the body under execute_with_retry.  The result also
\* says what the client did on the calls that were made.
Attempts == 1..(ServiceRetryConfig.max_attempts)

ClientCalls(b, r) == [i \in 1..r.calls |-> ClientOutcome(b, i)]

get_object(b) ==
    LET r == execute_with_retry(ServiceRetryConfig,
                 [i \in Attempts |-> get_object_body(ClientOutcome(b, i), b.metric_raises)])
    IN  [raised |-> r.raised, value |-> r.value, exc |-> r.exc,
         sleeps |-> r.sleeps, client |-> ClientCalls(b, r)]

delete_object(b) ==
    LET r == execute_with_retry(ServiceRetryConfig,
                 [i \in Attempts |-> delete_object_body(ClientOutcome(b, i), b.metric_raises)])
    IN  [raised |-> r.raised, value |-> r.value, exc |-> r.exc,
         sleeps |-> r.sleeps, client |-> ClientCalls(b, r)]

send_lead_message(b, message_id) ==
    LET r == execute_with_retry(ServiceRetryConfig,
                 [i \in Attempts |-> send_lead_message_body(ClientOutcome(b, i),
                                                            b.metric_raises, message_id)])
    IN  [raised |-> r.raised, value |-> r.value, exc |-> r.exc,
         sleeps |-> r.sleeps, client |-> ClientCalls(b, r)]

\* SQS takes at most this many entries in one send_message_batch call.
batch_size == 10

\* Strings are sequences of characters here.  encode() gives their bytes.
Alphabet == <<"|", "@", "-", "a", "b", "d", "n", "s", "x", "1", "2", "4", "7">>

encode(string) ==
    [k \in 1..Len(string) |-> CHOOSE c \in 1..Len(Alphabet) : Alphabet[c] = string[k]]

\* hashlib.sha256(...).hexdigest() is this many characters long.
HexDigestLen == 64

HexDigits == <<"0", "1", "2", "3", "4", "5", "6", "7",
               "8", "9", "a", "b", "c", "d", "e", "f">>

\* A digest stands in for SHA-256: a value computed from every byte of the
\* input, in order, and spelled as HexDigestLen hexadecimal digits.
RECURSIVE Mix(_, _)
Mix(bytes, h) ==
    IF bytes = <<>> THEN h ELSE Mix(Tail(bytes), ((h * 31) + Head(bytes)) % 65536)

sha256_hexdigest(bytes) ==
    LET h == Mix(bytes, 7) IN
    [k \in 1..HexDigestLen |-> HexDigits[(((h \div ((k % 4) + 1)) + k) % 16) + 1]]

\* datetime.isoformat(), for the receipt dates of the model.
isoformat(date) == <<"d", "-">> \o date

\* value or ''
OrEmpty(value) == IF value = <<"None">> \/ value = <<>> THEN <<>> ELSE value

\* string[:n]
Prefix(string, n) == SubSeq(string, 1, IF Len(string) < n THEN Len(string) ELSE n)

\* A derivation that also hashes the contact's first name.
_generate_deduplication_id_with_name(lead_data) ==
    LET dedup_string == lead_data.lead_source \o <<"|">>
                        \o OrEmpty(lead_data.contact_info.email) \o <<"|">>
                        \o OrEmpty(lead_data.resale_reference) \o <<"|">>
                        \o isoformat(lead_data.receipt_date) \o <<"|">>
                        \o lead_data.contact_info.first_name
        dedup_hash == sha256_hexdigest(encode(dedup_string))
    IN  Prefix(dedup_hash, 80)

_generate_deduplication_id(lead_data) ==
    LET dedup_string == lead_data.lead_source \o <<"|">>
                        \o OrEmpty(lead_data.contact_info.email) \o <<"|">>
                        \o OrEmpty(lead_data.resale_reference) \o <<"|">>
                        \o isoformat(lead_data.receipt_date)
        dedup_hash == sha256_hexdigest(encode(dedup_string))
    IN  Prefix(dedup_hash, 80)

\* What the client answers to one send_message_batch call: the entries it
\* took, in the order sent, each with the MessageId it gave, and the rest.
MessageIdOf(lead) == "msg-" \o ToString(lead)

BatchResponse(batch, failing) ==
    [Successful |-> SelectSeq(batch, LAMBDA l : l \notin failing),
     Failed     |-> SelectSeq(batch, LAMBDA l : l \in failing)]

\* A _send_message_batch that gives up when an entry has failed.
_send_message_batch_strict(batch, failing, outcome) ==
    IF outcome = "ok" /\ BatchResponse(batch, failing).Failed = <<>>
    THEN LET response == BatchResponse(batch, failing) IN
         Returned([k \in 1..Len(response.Successful) |->
                       MessageIdOf(response.Successful[k])])
    ELSE Raised(AWSServiceError("SQS_SEND_FAILED", [type |-> "ClientError"]))

\* _send_message_batch: one client call for the whole batch.  outcome is
\* what the call and the metric recording after it did: "ok", a client
\* failure, or a failure of a metric's automatic flush.
_send_message_batch(batch, failing, outcome) ==
    IF outcome = "ok"
    THEN LET response == BatchResponse(batch, failing) IN
         Returned([k \in 1..Len(response.Successful) |->
                       MessageIdOf(response.Successful[k])])
    ELSE IF outcome = "ClientError"
    THEN Raised(AWSServiceError("SQS_SEND_FAILED", [type |-> "ClientError"]))
    ELSE IF outcome = "metric"
    THEN Raised(AWSServiceError("SQS_SEND_FAILED", MetricsFlushError))
    ELSE Raised(MetricsFlushError)

\* lead_data_list[i : i + batch_size], i counted from 0.
Slice(list, i) ==
    SubSeq(list, i + 1, IF i + batch_size < Len(list) THEN i + batch_size ELSE Len(list))

(***************************************************************************)
(* Configuration (src/src/models/config.py).  The environment of the       *)
(* process is fixed when the process starts.                               *)
(***************************************************************************)
ValidEnvironment ==
    [AWS_S3_BUCKET |-> "inbox",
     SQS_QUEUE_URL |-> [prefix |-> "https://sqs.", rest |-> "eu-west-2/leads.fifo"],
     LOG_LEVEL |-> "info",
     MAX_EMAIL_SIZE_MB |-> 10,
     ENABLE_CUSTOM_METRICS |-> "true"]

Environments ==
    {ValidEnvironment,
     [ValidEnvironment EXCEPT !.ENABLE_CUSTOM_METRICS = "false"],
     [ValidEnvironment EXCEPT !.AWS_S3_BUCKET = ""],
     [ValidEnvironment EXCEPT !.SQS_QUEUE_URL.prefix = "http://sqs."],
     [ValidEnvironment EXCEPT !.LOG_LEVEL = "verbose"],
     [ValidEnvironment EXCEPT !.MAX_EMAIL_SIZE_MB = 0],
     [ValidEnvironment EXCEPT !.MAX_EMAIL_SIZE_MB = 101]}

upper(s) ==
    CASE s = "info" -> "INFO"
      [] s = "verbose" -> "VERBOSE"
      [] OTHER -> s

\* The three validators and the min_length of the bucket field.
validate_sqs_url(v) == v.prefix = "https://sqs."
validate_log_level(v) == upper(v) \in {"DEBUG", "INFO", "WARNING", "ERROR", "CRITICAL"}
validate_max_size(v) == ~(v <= 0 \/ v > 100)

\* load_config: the configuration, or the error it raises.  Every failure of
\* a validator is caught and raised again as the builtin ValueError.
load_config(env) ==
    IF /\ env.AWS_S3_BUCKET # ""
       /\ validate_sqs_url(env.SQS_QUEUE_URL)
       /\ validate_log_level(env.LOG_LEVEL)
       /\ validate_max_size(env.MAX_EMAIL_SIZE_MB)
    THEN Returned([level |-> upper(env.LOG_LEVEL),
                   enable_custom_metrics |-> (env.ENABLE_CUSTOM_METRICS = "true")])
    ELSE Raised([type |-> "ValueError", code |-> "", cause |-> "ValidationError"])

(***************************************************************************)
(* Events (the handler's input).  An object key is named by the position   *)
(* of its record in the notification.                                      *)
(***************************************************************************)
EventSources == {"aws:s3", "aws:sqs"}

KeyName(i) == "emails/" \o ToString(i)

S3Record(source, i, has_bucket, has_key) ==
    [eventSource |-> source,
     bucket |-> IF has_bucket THEN "inbox" ELSE "",
     key |-> IF has_key THEN KeyName(i) ELSE ""]

\* Records lists of up to MaxRecords records delivered by one event source.
RecordLists ==
    UNION {{[i \in 1..n |-> S3Record(source, i, f[i][1], f[i][2])] :
                f \in [1..n -> BOOLEAN \X BOOLEAN]} :
           n \in 0..MaxRecords, source \in EventSources}

Events ==
    {[has_records |-> FALSE, Records |-> <<>>]}
    \cup {[has_records |-> TRUE, Records |-> rs] : rs \in RecordLists}

_is_s3_event(event) ==
    IF ~event.has_records \/ event.Records = <<>> THEN FALSE
    ELSE event.Records[1].eventSource = "aws:s3"

\* A test that also takes an empty Records list for a direct invocation.
_is_direct_invocation_or_empty(event) == ~event.has_records \/ event.Records = <<>>

_is_direct_invocation(event) == ~event.has_records

_get_event_type(event) ==
    IF _is_s3_event(event) THEN "s3_event"
    ELSE IF _is_direct_invocation(event) THEN "direct_invocation"
    ELSE "unknown"

(***************************************************************************)
(* Lead source detection (src/src/parsers/lead_source_detector.py).        *)
(* An email is described by what the detector and the parsers read in it:  *)
(* the sender's domain, how many of a rule's sender, subject and content   *)
(* patterns match (content patterns count every occurrence), and the       *)
(* contact fields its text holds.                                          *)
(***************************************************************************)
RuleSources == {"rightbiz", "daltons", "homecare", "b4s", "nda", "registerinterest"}

\* _initialize_rules: the table, in its order.
detection_rules ==
    << [lead_source |-> "rightbiz", priority |-> 1, sender_domains |-> {"rightbiz.co.uk"}],
       [lead_source |-> "daltons", priority |-> 1, sender_domains |-> {"daltonssupportmail.com"}],
       [lead_source |-> "homecare", priority |-> 1, sender_domains |-> {"homecare.co.uk"}],
       [lead_source |-> "b4s", priority |-> 1, sender_domains |-> {"businessesforsale.com"}],
       [lead_source |-> "nda", priority |-> 2, sender_domains |-> {}],
       [lead_source |-> "registerinterest", priority |-> 3, sender_domains |-> {}] >>

NoHits == [s \in RuleSources |-> 0]

_score_rule(rule, email) ==
    LET sender_part ==
            IF email.sender_domain # "" /\ rule.sender_domains # {}
            THEN (IF email.sender_domain \in rule.sender_domains THEN 10 ELSE 0)
                 + 8 * email.sender_hits[rule.lead_source]
            ELSE 0
    IN  sender_part
        + 5 * email.subject_hits[rule.lead_source]
        + 2 * email.content_hits[rule.lead_source]

\* The rules scoring above zero, sorted by score descending then priority
\* ascending; the sort is stable, so the table's order breaks what is left.
detect_among(rules, email) ==
    LET scored == {i \in DOMAIN rules : _score_rule(rules[i], email) > 0}
        before(i, j) ==
            LET si == _score_rule(rules[i], email)
                sj == _score_rule(rules[j], email)
            IN  \/ si > sj
                \/ si = sj /\ rules[i].priority < rules[j].priority
                \/ si = sj /\ rules[i].priority = rules[j].priority /\ i <= j
    IN  IF scored = {} THEN "unknown"
        ELSE rules[CHOOSE i \in scored : \A j \in scored : before(i, j)].lead_source

\* detect_lead_source of a detector with the table as first made.
detect_lead_source(email) == detect_among(detection_rules, email)

\* add_custom_rule: the rule is appended and the table sorted by priority,
\* rules of one priority keeping their order.
add_custom_rule(rules, rule) ==
    LET low == SelectSeq(rules, LAMBDA r : r.priority <= rule.priority)
        high == SelectSeq(rules, LAMBDA r : r.priority > rule.priority)
    IN  low \o <<rule>> \o high

(***************************************************************************)
(* Parser registry and parsers (src/src/parsers).                          *)
(***************************************************************************)
\* _register_builtin_parsers: the sources with a parser class.
_parser_classes == {"rightbiz", "daltons", "b4s"}

NoParser == "None"

get_parser(lead_source) ==
    IF lead_source \in _parser_classes THEN lead_source ELSE NoParser

LeadParsingError(code) ==
    [type |-> "LeadParsingError", code |-> code, cause |-> "none"]

ValidationError ==
    [type |-> "ValidationError", code |-> "VALIDATION_FAILED", cause |-> "none"]

\* The email-address syntax check (third-party library): the addresses of the
\* model that it accepts.
validate_email_address(email) == email \in {"john@example.com", "amy@example.org"}

VALID_LEAD_SOURCES ==
    {"rightbiz", "daltons", "homecare", "b4s", "businesses for sale", "nda",
     "registerinterest"}

\* parse of a parser implementation: the reference is optional, first name
\* and email are required, and ContactInfo and LeadData validate what they
\* are built from (last_name of at least one character, email an address).
parse(parser, email) ==
    IF email.first_name = "" \/ email.contact_email = ""
    THEN Raised(LeadParsingError("LEAD_MISSING_REQUIRED_FIELDS"))
    ELSE IF email.last_name = "" \/ ~validate_email_address(email.contact_email)
            \/ parser \notin VALID_LEAD_SOURCES
    THEN Raised(LeadParsingError("LEAD_DATA_INVALID"))
    ELSE Returned([lead_source |-> parser,
                   resale_reference |-> email.reference,
                   contact_info |-> [first_name |-> email.first_name,
                                     last_name |-> email.last_name,
                                     email |-> email.contact_email],
                   receipt_date |-> "date"])

\* LeadData.dict(): the dictionary of the model's own fields; the contact
\* fields stay nested under contact_info.
LeadData_dict(lead_data) ==
    [k \in {"lead_source", "resale_reference", "contact_info", "receipt_date"} |->
        lead_data[k]]

(***************************************************************************)
(* DataValidator.validate_lead_data (src/src/utils/validators.py): the set *)
(* of fields in error; the dictionary is returned iff the set is empty.    *)
(***************************************************************************)
Truthy(v) == v # "" /\ v # "None"

field_errors(lead_data) ==
    {f \in {"first_name", "last_name", "email", "lead_source"} :
        f \notin DOMAIN lead_data \/ ~Truthy(lead_data[f])}
    \cup {f \in {"lead_source"} \cap DOMAIN lead_data :
            lead_data[f] \notin VALID_LEAD_SOURCES}
    \cup {f \in {"email"} \cap DOMAIN lead_data :
            ~validate_email_address(lead_data[f])}

validate_lead_data(lead_data) ==
    IF field_errors(lead_data) # {} THEN Raised(ValidationError)
    ELSE Returned(lead_data)

(***************************************************************************)
(* Phone numbers (src/src/utils/validators.py).  A phone string is the     *)
(* sequence of its characters.                                             *)
(***************************************************************************)
IsDigit(c) == c \in {"0", "1", "2", "3", "4", "5", "6", "7", "8", "9"}

\* str.strip()
RECURSIVE lstrip(_)
lstrip(string) ==
    IF string # <<>> /\ Head(string) = " " THEN lstrip(Tail(string)) ELSE string

RECURSIVE rstrip(_)
rstrip(string) ==
    IF string # <<>> /\ string[Len(string)] = " "
    THEN rstrip(SubSeq(string, 1, Len(string) - 1))
    ELSE string

strip(string) == rstrip(lstrip(string))

\* PHONE_PATTERN.match: ^[\+]?[\d\s\-\(\)]{7,20}$
PHONE_PATTERN_match(string) ==
    LET body == IF string # <<>> /\ Head(string) = "+" THEN Tail(string) ELSE string IN
    /\ Len(body) >= 7
    /\ Len(body) <= 20
    /\ \A k \in 1..Len(body) : IsDigit(body[k]) \/ body[k] \in {" ", "-", "(", ")"}

NotValid == [valid |-> FALSE, normalized |-> <<"None">>]

validate_phone_number(phone) ==
    IF phone = <<>> THEN NotValid
    ELSE LET cleaned == SelectSeq(strip(phone), LAMBDA c : IsDigit(c) \/ c = "+") IN
         IF Len(cleaned) < 7 \/ Len(cleaned) > 20 THEN NotValid
         ELSE IF ~PHONE_PATTERN_match(strip(phone)) THEN NotValid
         ELSE [valid |-> TRUE, normalized |-> cleaned]

(***************************************************************************)
(* Email processing engine (src/src/processors/email_processor.py).        *)
(***************************************************************************)
None == "None"

\* None where the value is otherwise a record (a lead, the configuration).
NoLead == [is_none |-> TRUE]
NoConfig == [is_none |-> TRUE]

ProcessingResult(success, lead_data, error_message, processing_time_ms) ==
    [kind |-> "result", success |-> success, lead_data |-> lead_data,
     error_message |-> error_message, processing_time_ms |-> processing_time_ms]

process_parsed_email(email) ==
    IF email.content # "ok"
    THEN \* _validate_email_content raises EmailProcessingError
         ProcessingResult(FALSE, NoLead,
                          IF email.content = "short"
                          THEN "Email content too short to process"
                          ELSE "Email content failed validation checks",
                          email.elapsed_ms)
    ELSE LET lead_source == detect_lead_source(email)
             parser == get_parser(lead_source)
         IN  IF parser = NoParser
             THEN ProcessingResult(FALSE, NoLead, "Parsing failed: LEAD_SOURCE_UNKNOWN",
                                   email.elapsed_ms)
             ELSE LET parsed == parse(parser, email) IN
                  IF parsed.raised
                  THEN ProcessingResult(FALSE, NoLead,
                                        "Parsing failed: " \o parsed.exc.code,
                                        email.elapsed_ms)
                  ELSE LET validated == validate_lead_data(LeadData_dict(parsed.value)) IN
                       IF validated.raised
                       THEN ProcessingResult(FALSE, NoLead,
                                             "Validation failed: Lead data validation failed",
                                             email.elapsed_ms)
                       ELSE IF "contact_info" \notin DOMAIN validated.value
                       THEN \* LeadData(**validated_data) lacks a required field
                            ProcessingResult(FALSE, NoLead, "UNKNOWN_ERROR", email.elapsed_ms)
                       ELSE ProcessingResult(TRUE, validated.value, None, email.elapsed_ms)

process_email_from_bytes(email) ==
    IF ~email.mime_ok
    THEN \* _parse_raw_email raises EmailProcessingError, caught at the boundary
         ProcessingResult(FALSE, NoLead, "Failed to parse email", email.elapsed_ms)
    ELSE process_parsed_email(email)

(***************************************************************************)
(* The emails of the model: what an object of the bucket can hold.         *)
(***************************************************************************)
BlankEmail ==
    [mime_ok |-> TRUE, content |-> "ok", sender_domain |-> "",
     sender_hits |-> NoHits, subject_hits |-> NoHits, content_hits |-> NoHits,
     first_name |-> "", last_name |-> "", contact_email |-> "",
     reference |-> "None", elapsed_ms |-> 4]

\* A lead sent by businessesforsale.com: name, address and listing reference.
B4sLead ==
    [BlankEmail EXCEPT !.sender_domain = "businessesforsale.com",
                       !.sender_hits = [NoHits EXCEPT !["b4s"] = 1],
                       !.subject_hits = [NoHits EXCEPT !["b4s"] = 1],
                       !.content_hits = [NoHits EXCEPT !["b4s"] = 2, !["rightbiz"] = 1],
                       !.first_name = "John", !.last_name = "Smith",
                       !.contact_email = "john@example.com",
                       !.reference = "BFS123", !.elapsed_ms = 12]

Emails ==
    {B4sLead,
     \* the same lead forwarded from another mailbox: content patterns only
     [B4sLead EXCEPT !.sender_domain = "example.org",
                     !.sender_hits = NoHits, !.subject_hits = NoHits,
                     !.contact_email = "amy@example.org", !.elapsed_ms = 9],
     [B4sLead EXCEPT !.contact_email = "", !.elapsed_ms = 7],
     [B4sLead EXCEPT !.contact_email = "john@", !.elapsed_ms = 8],
     [B4sLead EXCEPT !.last_name = "", !.elapsed_ms = 6],
     \* matches no detection rule
     [BlankEmail EXCEPT !.first_name = "John", !.last_name = "Smith",
                        !.contact_email = "john@example.com"],
     \* detected, but no parser class is registered for the source
     [BlankEmail EXCEPT !.sender_domain = "homecare.co.uk",
                        !.sender_hits = [NoHits EXCEPT !["homecare"] = 1],
                        !.first_name = "John", !.last_name = "Smith",
                        !.contact_email = "john@example.com", !.elapsed_ms = 5],
     [B4sLead EXCEPT !.content = "short", !.elapsed_ms = 1],
     [B4sLead EXCEPT !.mime_ok = FALSE, !.elapsed_ms = 2]}

(***************************************************************************)
(* The engine with its metrics (src/src/utils/metrics.py).  The collector  *)
(* is the number of metrics in its buffer and what the backend does with a *)
(* put_metric_data call; a processor without metrics has `enabled` false.  *)
(***************************************************************************)
\* MetricsCollector's batch_size.
metrics_batch_size == 20

BackendOutcomes == {"ok", "ClientError", "Exception"}

\* put_metric: the metric is buffered, and a full buffer is flushed.  flush
\* empties the buffer whatever happens and raises for a ClientError only.
put_metric(metrics) ==
    IF ~metrics.enabled THEN [metrics |-> metrics, raised |-> FALSE]
    ELSE IF metrics.buffer + 1 >= metrics_batch_size
    THEN [metrics |-> [metrics EXCEPT !.buffer = 0],
          raised |-> metrics.backend = "ClientError"]
    ELSE [metrics |-> [metrics EXCEPT !.buffer = @ + 1], raised |-> FALSE]

\* The except clause of process_email_from_bytes: the failure is counted,
\* then answered.
boundary_except(email, metrics, message) ==
    IF put_metric(metrics).raised THEN Raised(MetricsFlushError)
    ELSE Returned(ProcessingResult(FALSE, NoLead, message, email.elapsed_ms))

\* process_parsed_email with its metrics: the result, or what leaves its
\* except clauses, and the collector afterwards.
process_parsed_email_metered(email, metrics) ==
    LET result == process_parsed_email(email)
        recorded == put_metric(metrics)
    IN  IF result.success
        THEN \* record_parsing_time, inside the try: caught by `except Exception`
             IF recorded.raised
             THEN [out |-> Returned(ProcessingResult(FALSE, NoLead, "UNKNOWN_ERROR",
                                                     email.elapsed_ms)),
                   metrics |-> recorded.metrics]
             ELSE [out |-> Returned(result), metrics |-> recorded.metrics]
        ELSE IF result.error_message = "Validation failed: Lead data validation failed"
        THEN \* record_validation_error, inside the except clause
             IF recorded.raised
             THEN [out |-> Raised(MetricsFlushError), metrics |-> recorded.metrics]
             ELSE [out |-> Returned(result), metrics |-> recorded.metrics]
        ELSE [out |-> Returned(result), metrics |-> metrics]

\* process_email_from_bytes with its metrics.
process_email_from_bytes_metered(email, metrics) ==
    IF ~email.mime_ok
    THEN boundary_except(email, metrics, "Failed to parse email")
    ELSE LET inner == process_parsed_email_metered(email, metrics) IN
         IF inner.out.raised
         THEN boundary_except(email, inner.metrics, "UNKNOWN_ERROR")
         ELSE IF inner.out.value.success /\ inner.out.value.lead_data # NoLead
         THEN \* record_email_processed(success=True), inside the try
              LET counted == put_metric(inner.metrics) IN
              IF counted.raised
              THEN boundary_except(email, counted.metrics, "UNKNOWN_ERROR")
              ELSE inner.out
         ELSE inner.out

(***************************************************************************)
(* What the handler can get back from process_email_from_bytes: a          *)
(* ProcessingResult of any shape the type admits                           *)
(* (src/src/models/lead_data.py), or an exception (the failure metric      *)
(* recorded at the catch boundary raising).                                *)
(***************************************************************************)
SomeLead(source, email) ==
    [lead_source |-> source, resale_reference |-> "BFS123",
     contact_info |-> [first_name |-> "John", last_name |-> "Smith", email |-> email],
     receipt_date |-> "date"]

EngineRaised == [kind |-> "raised", success |-> FALSE, lead_data |-> NoLead,
                 error_message |-> None, processing_time_ms |-> 0]

EngineOutcomes ==
    {ProcessingResult(TRUE, SomeLead("b4s", "john@example.com"), None, 12),
     ProcessingResult(FALSE, NoLead, "Validation failed: Lead data validation failed", 3),
     ProcessingResult(TRUE, NoLead, None, 2),
     ProcessingResult(FALSE, SomeLead("b4s", "john@example.com"), "UNKNOWN_ERROR", 6),
     EngineRaised}

(***************************************************************************)
(* State.                                                                  *)
(***************************************************************************)
VARIABLES
    env,              \* the environment variables of the process
    cached_config,    \* get_config._config, None until a load succeeded
    collector,        \* _metrics_collector: the invocation that made it, 0 for None
    invocation,       \* invocations started so far
    pc,               \* where the handler is: idle, records, finally, done
    event,            \* the event of the current invocation
    correlation_id,   \* of the current invocation
    idx,              \* position in Records of the next record
    processed_count,
    failed_count,
    results,          \* the result entries, in the order appended
    calls,            \* the service calls of the invocation, in the order made
    steps,            \* history: what each record handled was given and added
    response,         \* what lambda_handler returns
    flush_calls,      \* calls of flush_metrics in the current invocation
    flush_warned,     \* the flush raised and the handler logged the warning
    escaped,          \* an exception left lambda_handler
    retry_config,     \* RetryHandler.config of the retry under study
    retry_func,       \* what the wrapped function does on each invocation
    retry_result,     \* what execute_with_retry did with it
    breaker,          \* a CircuitBreaker: config, state, counters, last_failure_time
    now,              \* time.time()
    cb_history,       \* history: the last call on the breaker and what led to it
    batch_input,      \* send_batch_messages: the leads and what the client will do
    batch_run,        \* send_batch_messages: loop index, calls made, ids collected
    dedup_leads,      \* two LeadData values
    dedup_ids,        \* history: the _generate_deduplication_id calls made on them
    legacy_input,     \* legacy handler: the bucket listing, and the read that fails
    legacy_run,       \* legacy handler: position, leads_to_upload, calls made, response
    engine_input,     \* process_email_from_bytes: the email and the collector
    engine_result,    \* what the call returned or raised
    log_ids,          \* LoggerFactory._loggers: the _correlation_id of each logger
    log_run,          \* the invocation being served and its correlation id
    log_events,       \* history: the log events emitted
    phone_input,      \* validate_phone_number: the string handed in
    phone_results,    \* what the call returned, and the call on its normalized value
    det_rules,        \* LeadSourceDetector.detection_rules
    det_seen,         \* history: the last email given to detect_lead_source, and the answer
    registry,         \* the ParserRegistry: _parser_classes and _parsers
    reg_made,         \* how many parser instances have been built
    reg_seen,         \* per source, what get_parser gave since the cache last lost it
    reg_retired,      \* the instances that were dropped from the cache
    reg_last,         \* the last call on the registry and what it returned
    met_collectors,   \* the MetricsCollector objects made so far: their buffers
    met_global,       \* _metrics_collector: the place of the current one (0: None)
    met_services,     \* the collector the service singletons hold (0: not constructed)
    met_run,          \* the process: metrics enabled, invocations served, where it is
    exec_last         \* the last CircuitBreaker.execute call: what it found and did

handler_vars == <<env, cached_config, collector, invocation, pc, event, correlation_id,
                  idx, processed_count, failed_count, results, calls, steps, response,
                  flush_calls, flush_warned, escaped>>

retry_vars == <<retry_config, retry_func, retry_result>>

breaker_vars == <<breaker, now, cb_history>>

\* The variables of the components studied on their own.
batch_vars == <<batch_input, batch_run>>

dedup_vars == <<dedup_leads, dedup_ids>>

legacy_vars == <<legacy_input, legacy_run>>

engine_vars == <<engine_input, engine_result>>

log_vars == <<log_ids, log_run, log_events>>

phone_vars == <<phone_input, phone_results>>

detector_vars == <<det_rules, det_seen>>

registry_vars == <<registry, reg_made, reg_seen, reg_retired, reg_last>>

metrics_vars == <<met_collectors, met_global, met_services, met_run>>

execute_vars == <<exec_last>>

aux_vars == <<retry_vars, breaker_vars, batch_vars, dedup_vars, legacy_vars,
             engine_vars, log_vars, phone_vars, detector_vars, registry_vars,
             metrics_vars, execute_vars>>

vars == <<handler_vars, aux_vars>>

\* execute_with_retry not called yet.
NotRun == [raised |-> FALSE, value |-> "not run", exc |-> NoExc, calls |-> 0, sleeps |-> 0]

\* A component that is not under study stays as it is constructed.
RetryParked ==
    /\ retry_config = ServiceRetryConfig
    /\ retry_func = <<>>
    /\ retry_result = NotRun

\* No call made on the breaker yet.  `prev` is the state before the last
\* call, `streak` the record_failure calls since the last record_success and
\* `streak_closed` whether the first of them found the breaker closed,
\* `trial_successes` the record_success calls of the current half-open period,
\* `last_failure_at` and `trial_failed_at` the times of the last
\* record_failure and of the last one made while half-open (0: none).
NoHistory ==
    [op |-> "none", allowed |-> TRUE, prev |-> "closed", streak |-> 0,
     streak_closed |-> TRUE, trial_successes |-> 0, last_failure_at |-> 0,
     trial_failed_at |-> 0]

StartTime == 1

BreakerParked ==
    /\ breaker = CircuitBreaker(DefaultBreakerConfig)
    /\ now = StartTime
    /\ cb_history = NoHistory

\* send_batch_messages not yet entered: i is the loop index, sent the
\* batches handed to the client, ids is all_message_ids.
BatchStart ==
    [pc |-> "start", i |-> 0, sent |-> <<>>, ids |-> <<>>, exc |-> NoExc]

BatchParked ==
    /\ batch_input = [leads |-> <<>>, failing |-> {}, raises_at |-> 0, outcome |-> "ok"]
    /\ batch_run = BatchStart

DedupParked == dedup_leads = <<>> /\ dedup_ids = <<>>

\* The legacy handler not yet entered: idx is the place in the listing,
\* log the delete_object and send_message calls made so far.
LegacyStart ==
    [pc |-> "start", idx |-> 1, leads_to_upload |-> <<>>, sending |-> 1,
     log |-> <<>>, response |-> [statusCode |-> 0]]

LegacyParked ==
    /\ legacy_input = [objects |-> <<>>, get_fails_at |-> 0]
    /\ legacy_run = LegacyStart

NoMetrics == [enabled |-> FALSE, buffer |-> 0, backend |-> "ok"]

\* process_email_from_bytes not yet called.
NotProcessed == Returned([kind |-> "not run"])

EngineParked ==
    /\ engine_input = [email |-> BlankEmail, metrics |-> NoMetrics]
    /\ engine_result = NotProcessed

\* The components that log, each through the logger of its own module name.
Components ==
    {"handler", "email_processor", "s3_service", "sqs_service", "parser", "detector"}

\* _correlation_id = None: the key is filtered out of the event.
NoId == 0

LogParked ==
    /\ log_ids = [c \in Components |-> NoId]
    /\ log_run = [config_ok |-> TRUE, served |-> 0, current |-> NoId]
    /\ log_events = <<>>

PhoneParked ==
    /\ phone_input = <<>>
    /\ phone_results = <<>>

DetectorParked ==
    /\ det_rules = detection_rules
    /\ det_seen = <<>>

NoRegistry == [_parser_classes |-> <<>>, _parsers |-> <<>>]
NoCall == [op |-> "none"]

RegistryParked ==
    /\ registry = NoRegistry
    /\ reg_made = 0
    /\ reg_seen = <<>>
    /\ reg_retired = {}
    /\ reg_last = NoCall

NoProcess == [pc |-> "none"]

MetricsParked ==
    /\ met_collectors = <<>>
    /\ met_global = 0
    /\ met_services = 0
    /\ met_run = NoProcess

NoExecute == [op |-> "none"]

ExecuteParked ==
    /\ exec_last = NoExecute

AuxParked ==
    /\ RetryParked
    /\ BreakerParked
    /\ BatchParked
    /\ DedupParked
    /\ LegacyParked
    /\ EngineParked
    /\ LogParked
    /\ PhoneParked
    /\ DetectorParked
    /\ RegistryParked
    /\ MetricsParked
    /\ ExecuteParked

NoResponse == [statusCode |-> 0]
NoEvent == [has_records |-> FALSE, Records |-> <<>>]

(***************************************************************************)
(* _process_s3_event, one iteration of the loop over Records.              *)
(***************************************************************************)
\* An entry of the call log: the operation, the key it is about, the
\* message group of a publish, whether it raised, and the client's outcomes
\* on the calls it made.
Call(op, key, group, r) ==
    [op |-> op, key |-> key, group |-> group, raised |-> r.raised, client |-> r.client]

\* An except clause that reports the error and does not count it.
except_handler_uncounted(acc, record, exception) ==
    [acc EXCEPT !.results = Append(@, [object_key |-> IF record.key = "" THEN "unknown"
                                                      ELSE record.key,
                                       status |-> "error",
                                       error |-> handle_exception(exception).code])]

\* The except clause of the loop body.
except_handler(acc, record, exception) ==
    [acc EXCEPT !.failed_count = @ + 1,
                !.results = Append(@, [object_key |-> IF record.key = "" THEN "unknown"
                                                      ELSE record.key,
                                       status |-> "error",
                                       error |-> handle_exception(exception).code])]

\* A success branch that deletes the object before it publishes.
success_branch_delete_first(acc, record, cid, result, s, d) ==
    LET deleted == [acc EXCEPT !.calls = Append(@, Call("delete_object", record.key, "", d))]
        sent == [deleted EXCEPT !.calls = Append(@, Call("send_lead_message", record.key, cid, s))]
    IN  IF d.raised THEN except_handler(deleted, record, d.exc)
        ELSE IF s.raised THEN except_handler(sent, record, s.exc)
        ELSE [sent EXCEPT
                !.processed_count = @ + 1,
                !.results = Append(@, [object_key |-> record.key,
                                       status |-> "success",
                                       message_id |-> s.value,
                                       lead_source |-> result.lead_data.lead_source,
                                       processing_time_ms |-> result.processing_time_ms])]

\* The branch taken for a result that is a success and carries a lead:
\* publish, then delete, then count and report.  s and d are what the
\* publish and the delete do.
success_branch(acc, record, cid, result, s, d) ==
    LET sent == [acc EXCEPT !.calls = Append(@, Call("send_lead_message", record.key, cid, s))]
        deleted == [sent EXCEPT !.calls = Append(@, Call("delete_object", record.key, "", d))]
    IN  IF s.raised THEN except_handler(sent, record, s.exc)
        ELSE IF d.raised THEN except_handler(deleted, record, d.exc)
        ELSE [deleted EXCEPT
                !.processed_count = @ + 1,
                !.results = Append(@, [object_key |-> record.key,
                                       status |-> "success",
                                       message_id |-> s.value,
                                       lead_source |-> result.lead_data.lead_source,
                                       processing_time_ms |-> result.processing_time_ms])]

\* An else branch that keeps the object.
failure_branch_keep(acc, record, result, d) ==
    [acc EXCEPT !.failed_count = @ + 1,
                !.results = Append(@, [object_key |-> record.key,
                                       status |-> "failed",
                                       error |-> result.error_message,
                                       processing_time_ms |-> result.processing_time_ms])]

\* The else branch: count and report the failure, then delete.
failure_branch(acc, record, result, d) ==
    LET reported == [acc EXCEPT
                        !.failed_count = @ + 1,
                        !.results = Append(@, [object_key |-> record.key,
                                               status |-> "failed",
                                               error |-> result.error_message,
                                               processing_time_ms |-> result.processing_time_ms])]
        deleted == [reported EXCEPT !.calls = Append(@, Call("delete_object", record.key, "", d))]
    IN  IF d.raised THEN except_handler(deleted, record, d.exc)
        ELSE deleted

\* The loop body for one record.  g, result, s and d are what the read, the
\* engine, the publish and the delete do when they are reached.
process_record(acc, record, cid, g, result, s, d) ==
    IF ~(record.bucket # "" /\ record.key # "")
    THEN [acc EXCEPT !.failed_count = @ + 1]
    ELSE LET read == [acc EXCEPT !.calls = Append(@, Call("get_object", record.key, "", g))] IN
         IF g.raised THEN except_handler(read, record, g.exc)
         ELSE IF result.kind = "raised" THEN except_handler(read, record, MetricsFlushError)
         ELSE IF result.success /\ result.lead_data # NoLead
         THEN success_branch(read, record, cid, result, s, d)
         ELSE failure_branch(read, record, result, d)

\* The message id the queue gives the message published for a key.
MessageId(key) == "msg-" \o key

\* Placeholders for the calls a path does not reach.
NotCalled == [raised |-> FALSE, value |-> "none", exc |-> NoExc, sleeps |-> 0, client |-> <<>>]
NoEmail == [is_none |-> TRUE]
NoResult == [kind |-> "none", success |-> FALSE, lead_data |-> NoLead,
             error_message |-> None, processing_time_ms |-> 0]

Acc == [processed_count |-> processed_count, failed_count |-> failed_count,
        results |-> results, calls |-> calls]

\* The state after the loop body ran with these inputs.
Handled(record, email, g, result, s, d) ==
    LET acc == process_record(Acc, record, correlation_id, g, result, s, d) IN
    /\ processed_count' = acc.processed_count
    /\ failed_count' = acc.failed_count
    /\ results' = acc.results
    /\ calls' = acc.calls
    /\ steps' = Append(steps, [record |-> idx, email |-> email, result |-> result,
                               read |-> g, sent |-> s, deleted |-> d,
                               processed |-> acc.processed_count - processed_count,
                               failed |-> acc.failed_count - failed_count,
                               entries |-> Len(acc.results) - Len(results)])
    /\ idx' = idx + 1
    /\ UNCHANGED <<env, cached_config, collector, invocation, pc, event,
                   correlation_id, response, flush_calls, flush_warned, escaped>>
    /\ UNCHANGED aux_vars

\* The behaviours a call can meet: recording a metric can raise only when the
\* services hold a metrics object, and they hold none when custom metrics are
\* disabled.
Clients == {b \in ClientBehaviours : b.metric_raises => collector # 0}
Engine == {r \in EngineOutcomes : r.kind = "raised" => collector # 0}

\* The calls after the read, for a result the engine returned.
AfterEngine(record, email, g, result) ==
    IF result.kind = "result" /\ result.success /\ result.lead_data # NoLead
    THEN \E sb \in Clients :
            LET s == send_lead_message(sb, MessageId(record.key)) IN
            IF s.raised THEN Handled(record, email, g, result, s, NotCalled)
            ELSE \E db \in Clients :
                    Handled(record, email, g, result, s, delete_object(db))
    ELSE IF result.kind = "result"
    THEN \E db \in Clients :
            Handled(record, email, g, result, NotCalled, delete_object(db))
    ELSE Handled(record, email, g, result, NotCalled, NotCalled)

\* One record, the engine seen through its return type.
HandleRecord ==
    /\ pc = "records"
    /\ idx <= Len(event.Records)
    /\ LET record == event.Records[idx] IN
       IF ~(record.bucket # "" /\ record.key # "")
       THEN Handled(record, NoEmail, NotCalled, NoResult, NotCalled, NotCalled)
       ELSE \E gb \in Clients :
               LET g == get_object(gb) IN
               IF g.raised THEN Handled(record, NoEmail, g, NoResult, NotCalled, NotCalled)
               ELSE \E result \in Engine : AfterEngine(record, NoEmail, g, result)

\* One record, the object read holding an email that the engine processes.
HandleRecordE2E ==
    /\ pc = "records"
    /\ idx <= Len(event.Records)
    /\ LET record == event.Records[idx] IN
       IF ~(record.bucket # "" /\ record.key # "")
       THEN Handled(record, NoEmail, NotCalled, NoResult, NotCalled, NotCalled)
       ELSE \E gb \in Clients :
               LET g == get_object(gb) IN
               IF g.raised THEN Handled(record, NoEmail, g, NoResult, NotCalled, NotCalled)
               ELSE \E email \in Emails :
                       AfterEngine(record, email, g, process_email_from_bytes(email))

(***************************************************************************)
(* lambda_handler (src/src/handlers/lambda_handler.py).                    *)
(***************************************************************************)
\* get_config: the cached configuration, or a load.
get_config(cached, environment) ==
    IF cached # NoConfig THEN Returned(cached) ELSE load_config(environment)

\* The two except clauses of lambda_handler: the 500 envelope of a domain
\* error, and of anything else.
error_response(exc, cid) ==
    IF isinstance(exc, BaseEmailParserException)
    THEN [statusCode |-> 500,
          body |-> [error |-> exc.code, message |-> Message(exc),
                    correlation_id |-> cid, details |-> "details"]]
    ELSE [statusCode |-> 500,
          body |-> [error |-> "UNEXPECTED_ERROR",
                    message |-> Message(handle_exception(exc)),
                    correlation_id |-> cid]]

_process_direct_invocation(cid) ==
    [statusCode |-> 200,
     body |-> [message |-> "Direct invocation not yet implemented",
               correlation_id |-> cid]]

\* The return statement of _process_s3_event.
s3_event_response(cid, processed, failed, entries) ==
    [statusCode |-> 200,
     body |-> [message |-> "S3 event processing completed",
               correlation_id |-> cid,
               processed_count |-> processed,
               failed_count |-> failed,
               results |-> entries]]

\* The try block up to the choice of the processing mode: where the handler
\* goes next and, when it is already known, the response.
lambda_handler_start(config, e, cid) ==
    IF config.raised
    THEN [pc |-> "finally", response |-> error_response(config.exc, cid)]
    ELSE IF _is_s3_event(e)
    THEN [pc |-> "records", response |-> NoResponse]
    ELSE IF _is_direct_invocation(e)
    THEN [pc |-> "finally", response |-> _process_direct_invocation(cid)]
    ELSE [pc |-> "finally",
          response |-> error_response(
              EmailProcessingError("Unsupported event type: " \o _get_event_type(e),
                                   "UNKNOWN_ERROR"), cid)]

\* An invocation starts: correlation id, configuration, logging, metrics,
\* and the choice of the processing mode.
Invoke ==
    /\ pc = "idle"
    /\ invocation < MaxInvocations
    /\ \E e \in Events :
        LET cid == invocation + 1
            config == get_config(cached_config, env)
            start == lambda_handler_start(config, e, cid)
        IN  /\ invocation' = cid
            /\ correlation_id' = cid
            /\ event' = e
            /\ cached_config' = IF config.raised THEN cached_config ELSE config.value
            /\ collector' = IF ~config.raised /\ config.value.enable_custom_metrics
                            THEN cid ELSE collector
            /\ pc' = start.pc
            /\ response' = start.response
            /\ idx' = 1
            /\ processed_count' = 0
            /\ failed_count' = 0
            /\ results' = <<>>
            /\ calls' = <<>>
            /\ steps' = <<>>
            /\ flush_calls' = 0
            /\ flush_warned' = FALSE
            /\ UNCHANGED <<env, escaped>>
    /\ UNCHANGED aux_vars

\* The loop over Records is over: _process_s3_event returns.
Complete ==
    /\ pc = "records"
    /\ idx > Len(event.Records)
    /\ response' = s3_event_response(correlation_id, processed_count, failed_count, results)
    /\ pc' = "finally"
    /\ UNCHANGED <<env, cached_config, collector, invocation, event, correlation_id, idx,
                   processed_count, failed_count, results, calls, steps,
                   flush_calls, flush_warned, escaped>>
    /\ UNCHANGED aux_vars

(***************************************************************************)
(* The finally block and flush_metrics (src/src/utils/metrics.py).         *)
(***************************************************************************)
\* What the metrics backend does with a put_metric_data call.
FlushOutcomes == {"ok", "ClientError", "Exception"}

\* flush_metrics: nothing without a collector; a ClientError of the backend
\* is raised as a domain error, any other failure is logged and dropped.
flush_metrics(current, outcome) ==
    IF current = 0 THEN Returned("none")
    ELSE IF outcome = "ClientError" THEN Raised(MetricsFlushError)
    ELSE Returned("none")

\* A finally block that lets the failure of the flush out.
finally_block_propagates(resp, flushed) ==
    [response |-> IF flushed.raised THEN NoResponse ELSE resp,
     warned |-> FALSE, escaped |-> flushed.raised]

\* The finally block: the flush, its failure caught and logged.
finally_block(resp, flushed) ==
    [response |-> resp, warned |-> flushed.raised, escaped |-> FALSE]

Flush ==
    /\ pc = "finally"
    /\ \E outcome \in FlushOutcomes :
        LET f == finally_block(response, flush_metrics(collector, outcome)) IN
        /\ response' = f.response
        /\ flush_warned' = f.warned
        /\ escaped' = f.escaped
    /\ flush_calls' = flush_calls + 1
    /\ pc' = "done"
    /\ UNCHANGED <<env, cached_config, collector, invocation, event, correlation_id, idx,
                   processed_count, failed_count, results, calls, steps>>
    /\ UNCHANGED aux_vars

\* lambda_handler returns the response; the locals of the invocation are gone
\* and the process waits for the next event.
Return ==
    /\ pc = "done"
    /\ pc' = "idle"
    /\ event' = NoEvent
    /\ correlation_id' = 0
    /\ idx' = 1
    /\ processed_count' = 0
    /\ failed_count' = 0
    /\ results' = <<>>
    /\ calls' = <<>>
    /\ steps' = <<>>
    /\ response' = NoResponse
    /\ flush_calls' = 0
    /\ flush_warned' = FALSE
    /\ UNCHANGED <<env, cached_config, collector, invocation, escaped>>
    /\ UNCHANGED aux_vars

(***************************************************************************)
(* Specifications.                                                         *)
(***************************************************************************)
\* The handler's variables when the process starts.
HandlerStart ==
    /\ cached_config = NoConfig
    /\ collector = 0
    /\ invocation = 0
    /\ pc = "idle"
    /\ event = NoEvent
    /\ correlation_id = 0
    /\ idx = 1
    /\ processed_count = 0
    /\ failed_count = 0
    /\ results = <<>>
    /\ calls = <<>>
    /\ steps = <<>>
    /\ response = NoResponse
    /\ flush_calls = 0
    /\ flush_warned = FALSE
    /\ escaped = FALSE

Init ==
    /\ env \in Environments
    /\ HandlerStart
    /\ AuxParked

\* The handler left alone while a component is studied on its own.
HandlerParked ==
    /\ env = ValidEnvironment
    /\ HandlerStart

Next == Invoke \/ HandleRecord \/ Complete \/ Flush \/ Return

\* The handler against every result the engine's return type admits.
Spec == Init /\ [][Next]_vars

NextE2E == Invoke \/ HandleRecordE2E \/ Complete \/ Flush \/ Return

\* The handler composed with the engine's code.
SpecE2E == Init /\ [][NextE2E]_vars

(***************************************************************************)
(* RetryHandler.execute_with_retry on its own: any configuration, any      *)
(* function.  A failure kind stands for an exception class; a configured   *)
(* set of kinds holds every kind that is an instance of its classes.       *)
(***************************************************************************)
FailureKinds == {"ClientError", "NoCredentialsError", "ValueError"}

Failure(kind) == [type |-> kind, code |-> "", cause |-> "none"]

\* The value the function returns on its i-th invocation.
ResultOf(i) == "result-" \o ToString(i)

\* What the function does on its i-th invocation.
FuncOutcome(func, i) ==
    IF func[i] = "ok" THEN Returned(ResultOf(i)) ELSE Raised(Failure(func[i]))

RetryConfigs ==
    [max_attempts : 0..MaxAttempts,
     retryable_exceptions : SUBSET FailureKinds,
     non_retryable_exceptions : SUBSET FailureKinds]

InitRetry ==
    /\ HandlerParked
    /\ ExecuteParked
    /\ MetricsParked
    /\ RegistryParked
    /\ DetectorParked
    /\ PhoneParked
    /\ LogParked
    /\ BreakerParked
    /\ BatchParked
    /\ DedupParked
    /\ LegacyParked
    /\ EngineParked
    /\ retry_config \in RetryConfigs
    /\ retry_func \in [1..MaxAttempts -> {"ok"} \cup FailureKinds]
    /\ retry_result = NotRun

RetryRun ==
    /\ retry_result = NotRun
    /\ retry_result' = execute_with_retry(retry_config,
                            [i \in 1..MaxAttempts |-> FuncOutcome(retry_func, i)])
    /\ UNCHANGED <<handler_vars, retry_config, retry_func, breaker_vars, batch_vars, dedup_vars,
                   legacy_vars, engine_vars, log_vars, phone_vars,
                   detector_vars, registry_vars, metrics_vars, execute_vars>>

NextRetry == RetryRun

SpecRetry == InitRetry /\ [][NextRetry]_vars

(***************************************************************************)
(* The circuit breaker on its own: a breaker of any small configuration,   *)
(* its three methods called in any order while the clock advances.         *)
(***************************************************************************)
CircuitBreakerConfigs ==
    [failure_threshold : 1..MaxThreshold,
     recovery_timeout  : 1..MaxRecovery,
     success_threshold : 1..MaxThreshold]

InitBreaker ==
    /\ HandlerParked
    /\ ExecuteParked
    /\ MetricsParked
    /\ RegistryParked
    /\ DetectorParked
    /\ PhoneParked
    /\ LogParked
    /\ RetryParked
    /\ BatchParked
    /\ DedupParked
    /\ LegacyParked
    /\ EngineParked
    /\ breaker \in {CircuitBreaker(c) : c \in CircuitBreakerConfigs}
    /\ now = StartTime
    /\ cb_history = NoHistory

\* The history after a call `op` that took the breaker to `after`.
Noted(op, allowed, after) ==
    [op |-> op,
     allowed |-> allowed,
     prev |-> breaker.state,
     streak |-> IF op = "record_failure" THEN cb_history.streak + 1
                ELSE IF op = "record_success" THEN 0
                ELSE cb_history.streak,
     streak_closed |-> IF op = "record_failure" /\ cb_history.streak = 0
                       THEN breaker.state = "closed"
                       ELSE cb_history.streak_closed,
     trial_successes |-> IF breaker.state # "half_open" /\ after.state = "half_open"
                         THEN 0
                         ELSE IF op = "record_success" /\ breaker.state = "half_open"
                         THEN cb_history.trial_successes + 1
                         ELSE cb_history.trial_successes,
     last_failure_at |-> IF op = "record_failure" THEN now
                         ELSE cb_history.last_failure_at,
     trial_failed_at |-> IF op = "record_failure" /\ breaker.state = "half_open"
                         THEN now
                         ELSE cb_history.trial_failed_at]

CanExecute ==
    LET r == can_execute(breaker, now) IN
    /\ breaker' = r.cb
    /\ cb_history' = Noted("can_execute", r.allowed, r.cb)
    /\ UNCHANGED <<handler_vars, retry_vars, batch_vars, dedup_vars, legacy_vars, engine_vars, now,
                   log_vars, phone_vars, detector_vars, registry_vars,
                   metrics_vars, execute_vars>>

RecordSuccess ==
    LET after == record_success(breaker) IN
    /\ breaker' = after
    /\ cb_history' = Noted("record_success", cb_history.allowed, after)
    /\ UNCHANGED <<handler_vars, retry_vars, batch_vars, dedup_vars, legacy_vars, engine_vars, now,
                   log_vars, phone_vars, detector_vars, registry_vars,
                   metrics_vars, execute_vars>>

RecordFailure ==
    LET after == record_failure(breaker, now) IN
    /\ breaker.failure_count < MaxFailures
    /\ breaker' = after
    /\ cb_history' = Noted("record_failure", cb_history.allowed, after)
    /\ UNCHANGED <<handler_vars, retry_vars, batch_vars, dedup_vars, legacy_vars, engine_vars, now,
                   log_vars, phone_vars, detector_vars, registry_vars,
                   metrics_vars, execute_vars>>

Tick ==
    /\ now < MaxTime
    /\ now' = now + 1
    /\ cb_history' = [cb_history EXCEPT !.op = "tick", !.prev = breaker.state]
    /\ UNCHANGED <<handler_vars, retry_vars, batch_vars, dedup_vars, legacy_vars, engine_vars,
                   breaker, log_vars, phone_vars, detector_vars, registry_vars,
                   metrics_vars, execute_vars>>

NextBreaker == CanExecute \/ RecordSuccess \/ RecordFailure \/ Tick

SpecBreaker == InitBreaker /\ [][NextBreaker]_vars

(***************************************************************************)
(* send_batch_messages on its own: a list of leads, named by their place   *)
(* in the list; the client rejects the entries in `failing` (none, or one  *)
(* lead and the last), and the                                             *)
(* raises_at-th batch call ends as `outcome` says (0: every call answers). *)
(***************************************************************************)
BatchOutcomes == {"ClientError", "metric", "metric_again"}

Groups(n) == (n + batch_size - 1) \div batch_size

BatchInputs ==
    UNION { { [leads |-> [k \in 1..n |-> k],
               failing |-> f,
               raises_at |-> g,
               outcome |-> IF g = 0 THEN "ok" ELSE o] :
                 f \in {{}} \cup {{a, n} : a \in 1..n},
                 g \in 0..Groups(n),
                 o \in BatchOutcomes } : n \in 0..MaxLeads }

InitBatch ==
    /\ HandlerParked
    /\ ExecuteParked
    /\ MetricsParked
    /\ RegistryParked
    /\ DetectorParked
    /\ PhoneParked
    /\ LogParked
    /\ RetryParked
    /\ BreakerParked
    /\ DedupParked
    /\ LegacyParked
    /\ EngineParked
    /\ batch_input \in BatchInputs
    /\ batch_run = BatchStart

\* Entry: an empty list is answered at once.
BatchEnter ==
    /\ batch_run.pc = "start"
    /\ batch_run' = [batch_run EXCEPT !.pc = IF batch_input.leads = <<>>
                                             THEN "returned" ELSE "loop"]
    /\ UNCHANGED <<handler_vars, retry_vars, breaker_vars, dedup_vars, legacy_vars, engine_vars,
                   batch_input, log_vars, phone_vars, detector_vars,
                   registry_vars, metrics_vars, execute_vars>>

\* One turn of the loop: the next batch goes to _send_message_batch.  What
\* it raises reaches the caller: execute_with_retry does not call the
\* method again for it.
BatchSend ==
    LET batch == Slice(batch_input.leads, batch_run.i)
        call == Len(batch_run.sent) + 1
        r == _send_message_batch(batch, batch_input.failing,
                                 IF call = batch_input.raises_at
                                 THEN batch_input.outcome ELSE "ok")
    IN  /\ batch_run.pc = "loop"
        /\ batch_run.i < Len(batch_input.leads)
        /\ batch_run' =
             IF r.raised
             THEN [batch_run EXCEPT
                     !.sent = Append(@, batch),
                     !.pc = IF should_retry(ServiceRetryConfig, r.exc, 1)
                            THEN "start" ELSE "raised",
                     !.exc = r.exc]
             ELSE [batch_run EXCEPT
                     !.sent = Append(@, batch),
                     !.ids = @ \o r.value,
                     !.i = @ + batch_size]
        /\ UNCHANGED <<handler_vars, retry_vars, breaker_vars, dedup_vars, legacy_vars, engine_vars,
                   batch_input, log_vars, phone_vars, detector_vars,
                   registry_vars, metrics_vars, execute_vars>>

\* The loop has run out: all_message_ids is returned.
BatchReturn ==
    /\ batch_run.pc = "loop"
    /\ batch_run.i >= Len(batch_input.leads)
    /\ batch_run' = [batch_run EXCEPT !.pc = "returned"]
    /\ UNCHANGED <<handler_vars, retry_vars, breaker_vars, dedup_vars, legacy_vars, engine_vars,
                   batch_input, log_vars, phone_vars, detector_vars,
                   registry_vars, metrics_vars, execute_vars>>

NextBatch == BatchEnter \/ BatchSend \/ BatchReturn

SpecBatch == InitBatch /\ [][NextBatch]_vars

(***************************************************************************)
(* _generate_deduplication_id on its own: two leads, the id derived for    *)
(* either of them, time and again.                                         *)
(***************************************************************************)
DedupLeads ==
    [lead_source : {<<"b", "4", "s">>, <<"n", "d", "a">>},
     resale_reference : {<<"None">>, <<>>, <<"7">>},
     contact_info : [first_name : {<<"a">>, <<"b">>},
                     email : {<<"a", "@", "x">>, <<"b", "@", "x">>},
                     telephone : {<<"None">>, <<"7", "7">>}],
     receipt_date : {<<"1">>, <<"2">>}]

InitDedup ==
    /\ HandlerParked
    /\ ExecuteParked
    /\ MetricsParked
    /\ RegistryParked
    /\ DetectorParked
    /\ PhoneParked
    /\ LogParked
    /\ RetryParked
    /\ BreakerParked
    /\ BatchParked
    /\ LegacyParked
    /\ EngineParked
    /\ dedup_leads \in DedupLeads \X DedupLeads
    /\ dedup_ids = <<>>

GenerateId ==
    /\ Len(dedup_ids) < MaxIds
    /\ \E which \in 1..2 :
         dedup_ids' = Append(dedup_ids,
                             [lead |-> which,
                              id |-> _generate_deduplication_id(dedup_leads[which])])
    /\ UNCHANGED <<handler_vars, retry_vars, breaker_vars, batch_vars, legacy_vars, engine_vars,
                   dedup_leads, log_vars, phone_vars, detector_vars,
                   registry_vars, metrics_vars, execute_vars>>

NextDedup == GenerateId

SpecDedup == InitDedup /\ [][NextDedup]_vars

(***************************************************************************)
(* The legacy polling handler (src/lambda_function.py, src/leadParser.py). *)
(* A message is the list of its text parts, a part the set of the marker   *)
(* strings it contains, and `email` what the parser of its source finds.   *)
(***************************************************************************)
\* LeadParser.get_lead_source: the first part decides.
get_lead_source(text_plain) ==
    IF text_plain = <<>> THEN "None"
    ELSE LET part == Head(text_plain) IN
         IF "@daltonssupportmail.com" \in part THEN "daltons"
         ELSE IF "@rightbiz.co.uk" \in part THEN "rightbiz"
         ELSE IF "@homecare.co.uk" \in part THEN "homecare"
         ELSE IF "@BusinessesForSale.com" \in part THEN "b4s"
         ELSE IF "Register my interest" \in part THEN "registerinterest"
         ELSE IF "NDA Submission" \in part THEN "nda"
         ELSE "None"

\* The sources the handler has a branch for.
LegacySources == {"rightbiz", "daltons", "homecare", "b4s"}

\* A branch that keeps the object when nothing was extracted.
legacy_branch_keeps_empty(obj, lead_source) ==
    IF lead_source \in LegacySources
    THEN IF Len(obj.email) > 0
         THEN [queue |-> <<[lead_source |-> lead_source, email |-> obj.email,
                            obj_key |-> obj.Key]>>,
               deletes |-> <<obj.Key>>]
         ELSE [queue |-> <<>>, deletes |-> <<>>]
    ELSE [queue |-> <<>>, deletes |-> <<obj.Key>>]

\* The if/elif chain of the walk for one object: what is appended to
\* leads_to_upload and the delete_object calls made.
legacy_branch(obj, lead_source) ==
    IF lead_source \in LegacySources
    THEN IF Len(obj.email) > 0
         THEN [queue |-> <<[lead_source |-> lead_source, email |-> obj.email,
                            obj_key |-> obj.Key]>>,
               deletes |-> <<obj.Key>>]
         ELSE [queue |-> <<>>, deletes |-> <<obj.Key>>]
    ELSE [queue |-> <<>>, deletes |-> <<obj.Key>>]

LegacyTexts ==
    {<<>>, <<{}>>, <<{}, {"@rightbiz.co.uk"}>>,
     <<{"@daltonssupportmail.com", "@rightbiz.co.uk"}>>,
     <<{"@rightbiz.co.uk"}>>, <<{"@homecare.co.uk"}>>,
     <<{"@BusinessesForSale.com", "NDA Submission"}>>,
     <<{"Register my interest"}>>, <<{"NDA Submission"}>>}

LegacyListings ==
    UNION { [1..n -> [text_plain : LegacyTexts, email : {"", "a@x.com"}]] :
              n \in 0..MaxObjects }

\* The listing as list_objects_v2 gives it: keys are distinct.
Contents(listing) ==
    [k \in 1..Len(listing) |->
        [Key |-> KeyName(k), text_plain |-> listing[k].text_plain,
         email |-> listing[k].email]]

InitLegacy ==
    /\ HandlerParked
    /\ ExecuteParked
    /\ MetricsParked
    /\ RegistryParked
    /\ DetectorParked
    /\ PhoneParked
    /\ LogParked
    /\ RetryParked
    /\ BreakerParked
    /\ BatchParked
    /\ DedupParked
    /\ EngineParked
    /\ \E listing \in LegacyListings, f \in 0..MaxObjects :
         /\ f <= Len(listing)
         /\ legacy_input = [objects |-> Contents(listing), get_fails_at |-> f]
    /\ legacy_run = LegacyStart

LegacyResponse(message, leads) ==
    [statusCode |-> 200, Message |-> message, lead_list |-> leads]

\* The listing is fetched; an empty one is answered at once.
LegacyList ==
    /\ legacy_run.pc = "start"
    /\ legacy_run' =
         IF legacy_input.objects = <<>>
         THEN [legacy_run EXCEPT !.pc = "done",
                 !.response = LegacyResponse("No Leads to process...", <<>>)]
         ELSE [legacy_run EXCEPT !.pc = "walk"]
    /\ UNCHANGED <<handler_vars, retry_vars, breaker_vars, batch_vars, dedup_vars,
                   engine_vars, legacy_input, log_vars, phone_vars,
                   detector_vars, registry_vars, metrics_vars, execute_vars>>

\* One object of the walk: read, parsed, perhaps queued, deleted.  A read
\* that raises ends the handler.
LegacyWalk ==
    LET obj == legacy_input.objects[legacy_run.idx]
        b == legacy_branch(obj, get_lead_source(obj.text_plain))
    IN  /\ legacy_run.pc = "walk"
        /\ legacy_run.idx <= Len(legacy_input.objects)
        /\ legacy_run' =
             IF legacy_input.get_fails_at = legacy_run.idx
             THEN [legacy_run EXCEPT !.pc = "raised"]
             ELSE [legacy_run EXCEPT
                     !.idx = @ + 1,
                     !.leads_to_upload = @ \o b.queue,
                     !.log = @ \o [k \in 1..Len(b.deletes) |->
                                      [call |-> "delete_object", key |-> b.deletes[k]]]]
        /\ UNCHANGED <<handler_vars, retry_vars, breaker_vars, batch_vars, dedup_vars,
                       engine_vars, legacy_input, log_vars, phone_vars,
                       detector_vars, registry_vars, metrics_vars,
                       execute_vars>>

\* The walk is over: the queue client is made.
LegacyWalked ==
    /\ legacy_run.pc = "walk"
    /\ legacy_run.idx > Len(legacy_input.objects)
    /\ legacy_run' = [legacy_run EXCEPT !.pc = "send"]
    /\ UNCHANGED <<handler_vars, retry_vars, breaker_vars, batch_vars, dedup_vars,
                   engine_vars, legacy_input, log_vars, phone_vars,
                   detector_vars, registry_vars, metrics_vars, execute_vars>>

\* One lead of leads_to_upload is published.
LegacySend ==
    /\ legacy_run.pc = "send"
    /\ legacy_run.sending <= Len(legacy_run.leads_to_upload)
    /\ legacy_run' = [legacy_run EXCEPT
                        !.sending = @ + 1,
                        !.log = Append(@, [call |-> "send_message",
                                           key |-> legacy_run.leads_to_upload[legacy_run.sending].obj_key])]
    /\ UNCHANGED <<handler_vars, retry_vars, breaker_vars, batch_vars, dedup_vars,
                   engine_vars, legacy_input, log_vars, phone_vars,
                   detector_vars, registry_vars, metrics_vars, execute_vars>>

LegacyReturn ==
    /\ legacy_run.pc = "send"
    /\ legacy_run.sending > Len(legacy_run.leads_to_upload)
    /\ legacy_run' = [legacy_run EXCEPT !.pc = "done",
                        !.response = LegacyResponse("Leads Processed", legacy_run.leads_to_upload)]
    /\ UNCHANGED <<handler_vars, retry_vars, breaker_vars, batch_vars, dedup_vars,
                   engine_vars, legacy_input, log_vars, phone_vars,
                   detector_vars, registry_vars, metrics_vars, execute_vars>>

NextLegacy == LegacyList \/ LegacyWalk \/ LegacyWalked \/ LegacySend \/ LegacyReturn

SpecLegacy == InitLegacy /\ [][NextLegacy]_vars

(***************************************************************************)
(* process_email_from_bytes on its own: any email of the model, handed to  *)
(* a processor without metrics or to one whose collector holds any number  *)
(* of metrics short of a batch.                                            *)
(***************************************************************************)
Collectors ==
    {NoMetrics} \cup [enabled : {TRUE}, buffer : 0..(metrics_batch_size - 1),
                      backend : BackendOutcomes]

InitEngine ==
    /\ HandlerParked
    /\ ExecuteParked
    /\ MetricsParked
    /\ RegistryParked
    /\ DetectorParked
    /\ PhoneParked
    /\ LogParked
    /\ RetryParked
    /\ BreakerParked
    /\ BatchParked
    /\ DedupParked
    /\ LegacyParked
    /\ engine_input \in [email : Emails, metrics : Collectors]
    /\ engine_result = NotProcessed

ProcessEmail ==
    /\ ~engine_result.raised
    /\ engine_result.value.kind = "not run"
    /\ engine_result' = process_email_from_bytes_metered(engine_input.email,
                                                         engine_input.metrics)
    /\ UNCHANGED <<handler_vars, retry_vars, breaker_vars, batch_vars, dedup_vars,
                   legacy_vars, engine_input, log_vars, phone_vars,
                   detector_vars, registry_vars, metrics_vars, execute_vars>>

NextEngine == ProcessEmail

SpecEngine == InitEngine /\ [][NextEngine]_vars

(***************************************************************************)
(* Correlation ids in the log (src/src/utils/logger.py).  The correlation  *)
(* id of the n-th invocation is n.                                         *)
(***************************************************************************)
\* StructuredLogger._log: the event carries the correlation_id keyword when
\* the caller gives one, else the logger's own, and no key for None.
_log(ids, component, kwarg) ==
    [component |-> component,
     correlation_id |-> IF kwarg # NoId THEN kwarg ELSE ids[component]]

Emitted(ids, component, kwarg) ==
    [event |-> _log(ids, component, kwarg), invocation |-> log_run.served]

InitLog ==
    /\ HandlerParked
    /\ ExecuteParked
    /\ MetricsParked
    /\ RegistryParked
    /\ DetectorParked
    /\ PhoneParked
    /\ RetryParked
    /\ BreakerParked
    /\ BatchParked
    /\ DedupParked
    /\ LegacyParked
    /\ EngineParked
    /\ log_ids = [c \in Components |-> NoId]
    /\ log_run \in [config_ok : BOOLEAN, served : {0}, current : {NoId}]
    /\ log_events = <<>>

\* lambda_handler begins: a fresh correlation id; with a configuration, the
\* handler's logger is given it and the operation is announced; without,
\* the except clause logs the failure.
LogInvoke ==
    LET n == log_run.served + 1
        ids == IF log_run.config_ok THEN [log_ids EXCEPT !["handler"] = n] ELSE log_ids
    IN  /\ log_run.current = NoId
        /\ log_run.served < MaxServed
        /\ Len(log_events) < MaxEvents
        /\ log_run' = [log_run EXCEPT !.served = n,
                                      !.current = IF log_run.config_ok THEN n ELSE NoId]
        /\ log_ids' = ids
        /\ log_events' = Append(log_events,
                                [event |-> _log(ids, "handler", n), invocation |-> n])
        /\ UNCHANGED <<handler_vars, retry_vars, breaker_vars, batch_vars, dedup_vars,
                       legacy_vars, engine_vars, phone_vars, detector_vars,
                       registry_vars, metrics_vars, execute_vars>>

\* The handler logs: with the correlation_id keyword (most calls) or
\* without (the warnings for a skipped record and for a failed flush).
LogHandler ==
    /\ log_run.current # NoId
    /\ Len(log_events) < MaxEvents
    /\ \E kwarg \in {NoId, log_run.current} :
         log_events' = Append(log_events, Emitted(log_ids, "handler", kwarg))
    /\ UNCHANGED <<handler_vars, retry_vars, breaker_vars, batch_vars, dedup_vars,
                   legacy_vars, engine_vars, log_ids, log_run, phone_vars,
                   detector_vars, registry_vars, metrics_vars, execute_vars>>

\* process_email_from_bytes: the processor's logger is given the id, then
\* the operation is announced.
LogProcessEmail ==
    LET ids == [log_ids EXCEPT !["email_processor"] = log_run.current] IN
    /\ log_run.current # NoId
    /\ Len(log_events) < MaxEvents
    /\ log_ids' = ids
    /\ log_events' = Append(log_events, Emitted(ids, "email_processor", NoId))
    /\ UNCHANGED <<handler_vars, retry_vars, breaker_vars, batch_vars, dedup_vars,
                   legacy_vars, engine_vars, log_run, phone_vars,
                   detector_vars, registry_vars, metrics_vars, execute_vars>>

\* A service, the detector or a parser logs while the handler's loop calls it.
LogComponent ==
    /\ log_run.current # NoId
    /\ Len(log_events) < MaxEvents
    /\ \E c \in Components \ {"handler", "email_processor"} :
         log_events' = Append(log_events, Emitted(log_ids, c, NoId))
    /\ UNCHANGED <<handler_vars, retry_vars, breaker_vars, batch_vars, dedup_vars,
                   legacy_vars, engine_vars, log_ids, log_run, phone_vars,
                   detector_vars, registry_vars, metrics_vars, execute_vars>>

\* lambda_handler returns.
LogReturn ==
    /\ log_run.current # NoId
    /\ log_run' = [log_run EXCEPT !.current = NoId]
    /\ UNCHANGED <<handler_vars, retry_vars, breaker_vars, batch_vars, dedup_vars,
                   legacy_vars, engine_vars, log_ids, log_events, phone_vars,
                   detector_vars, registry_vars, metrics_vars, execute_vars>>

NextLog == LogInvoke \/ LogHandler \/ LogProcessEmail \/ LogComponent \/ LogReturn

SpecLog == InitLog /\ [][NextLog]_vars

(***************************************************************************)
(* validate_phone_number on its own: called on a string, and then on the   *)
(* normalized value it returned.                                           *)
(***************************************************************************)
PhoneCores == UNION { [1..n -> {"+", "7", "-"}] : n \in 0..MaxPhoneLen }

\* A core, perhaps after a space, perhaps before a letter, a parenthesis or
\* a space.
PhoneStrings ==
    { l \o core \o r : l \in {<<>>, <<" ">>}, core \in PhoneCores,
                       r \in {<<>>, <<" ">>, <<"x">>, <<")">>} }

InitPhone ==
    /\ HandlerParked
    /\ ExecuteParked
    /\ MetricsParked
    /\ RegistryParked
    /\ DetectorParked
    /\ RetryParked
    /\ BreakerParked
    /\ BatchParked
    /\ DedupParked
    /\ LegacyParked
    /\ EngineParked
    /\ LogParked
    /\ phone_input \in PhoneStrings
    /\ phone_results = <<>>

ValidatePhone ==
    /\ phone_results = <<>>
    /\ phone_results' = <<validate_phone_number(phone_input)>>
    /\ UNCHANGED <<handler_vars, retry_vars, breaker_vars, batch_vars, dedup_vars,
                   legacy_vars, engine_vars, log_vars, phone_input,
                   detector_vars, registry_vars, metrics_vars, execute_vars>>

\* The normalized value of an accepted string is validated in its turn.
RevalidatePhone ==
    /\ Len(phone_results) = 1
    /\ phone_results[1].valid
    /\ phone_results' = Append(phone_results,
                               validate_phone_number(phone_results[1].normalized))
    /\ UNCHANGED <<handler_vars, retry_vars, breaker_vars, batch_vars, dedup_vars,
                   legacy_vars, engine_vars, log_vars, phone_input,
                   detector_vars, registry_vars, metrics_vars, execute_vars>>

NextPhone == ValidatePhone \/ RevalidatePhone

SpecPhone == InitPhone /\ [][NextPhone]_vars

(***************************************************************************)
(* The detector on its own: custom rules are added to the table, and       *)
(* emails are given to detect_lead_source.                                 *)
(***************************************************************************)
CustomSource(k) == "custom-" \o ToString(k)

CustomSources == {CustomSource(k) : k \in 1..MaxCustomRules}

\* The custom rules: of any priority, with sender domains or without.
CustomRules(k) ==
    [lead_source : {CustomSource(k)}, priority : 1..3,
     sender_domains : {{}, {"lead.example"}}]

\* Emails by what the detector reads in them; only a sender can match
\* sender patterns.
DetectorEmails ==
    { [sender_domain |-> d,
       sender_hits |-> [s \in RuleSources \cup CustomSources |->
                           IF s = "rightbiz" THEN a ELSE IF s \in CustomSources THEN c[s] ELSE 0],
       subject_hits |-> [s \in RuleSources \cup CustomSources |->
                           IF s \in CustomSources THEN cs[s]
                           ELSE IF s \in {"rightbiz", "nda"} THEN b[s] ELSE 0],
       content_hits |-> [s \in RuleSources \cup CustomSources |->
                           IF s = "rightbiz" THEN n
                           ELSE IF s = "nda" THEN m
                           ELSE IF s \in CustomSources THEN cc[s] ELSE 0]] :
        d \in {"", "rightbiz.co.uk", "lead.example"},
        a \in 0..1, b \in [{"rightbiz", "nda"} -> 0..1],
        n \in 0..MaxOccurrences, m \in 0..1,
        c \in [CustomSources -> 0..1], cs \in [CustomSources -> 0..1],
        cc \in [CustomSources -> 0..1] }

InitDetector ==
    /\ HandlerParked
    /\ ExecuteParked
    /\ MetricsParked
    /\ RegistryParked
    /\ RetryParked
    /\ BreakerParked
    /\ BatchParked
    /\ DedupParked
    /\ LegacyParked
    /\ EngineParked
    /\ LogParked
    /\ PhoneParked
    /\ det_rules = detection_rules
    /\ det_seen = <<>>

AddCustomRule ==
    LET k == Len(det_rules) - Len(detection_rules) + 1 IN
    /\ k <= MaxCustomRules
    /\ \E rule \in CustomRules(k) : det_rules' = add_custom_rule(det_rules, rule)
    /\ det_seen' = <<>>
    /\ UNCHANGED <<handler_vars, retry_vars, breaker_vars, batch_vars, dedup_vars,
                   legacy_vars, engine_vars, log_vars, phone_vars,
                   registry_vars, metrics_vars, execute_vars>>

Detect ==
    /\ det_seen = <<>>
    /\ \E email \in DetectorEmails :
         /\ email.sender_domain = "" => \A s \in DOMAIN email.sender_hits : email.sender_hits[s] = 0
         /\ det_seen' = <<[email |-> email, answer |-> detect_among(det_rules, email)]>>
    /\ UNCHANGED <<handler_vars, retry_vars, breaker_vars, batch_vars, dedup_vars,
                   legacy_vars, engine_vars, log_vars, phone_vars, det_rules,
                   registry_vars, metrics_vars, execute_vars>>

NextDetector == AddCustomRule \/ Detect

SpecDetector == InitDetector /\ [][NextDetector]_vars

(***************************************************************************)
(* The parser registry (src/src/parsers/parser_registry.py).  A class is   *)
(* its name, "None" where the table has no entry; an instance is the class *)
(* it was built from and its identity, the number of its construction.     *)
(***************************************************************************)
RegistrySources == {"rightbiz", "daltons", "b4s", "homecare"}
builtin_parsers ==
    [s \in RegistrySources |->
        CASE s = "rightbiz" -> "RightbizParser"
          [] s = "daltons" -> "DaltonsParser"
          [] s = "b4s" -> "B4sParser"
          [] OTHER -> "None"]

\* What register_parser may be handed: a concrete parser, BaseParser itself
\* (abstract: it cannot be instantiated), and a class that is no parser.
OfferedClasses == {"CustomParser", "BaseParser", "object"}
issubclass_BaseParser(class) == class # "object"
Instantiable(class) == class \notin {"BaseParser", "None", "object"}

NoInstance == [class |-> "None", id |-> 0]
NotAsked == [class |-> "not asked", id |-> 0]

ParserRegistry ==
    [_parser_classes |-> builtin_parsers,
     _parsers |-> [s \in RegistrySources |-> NoInstance]]

\* register_parser that leaves the cached instance in place.
register_parser_keeps_cache(reg, lead_source, parser_class) ==
    IF ~issubclass_BaseParser(parser_class) THEN reg
    ELSE [reg EXCEPT !._parser_classes[lead_source] = parser_class]

\* register_parser: a ValueError leaves the registry as it was.
register_parser(reg, lead_source, parser_class) ==
    IF ~issubclass_BaseParser(parser_class) THEN reg
    ELSE [_parser_classes |-> [reg._parser_classes EXCEPT ![lead_source] = parser_class],
          _parsers |-> [reg._parsers EXCEPT ![lead_source] = NoInstance]]

\* get_parser of a registry: the registry after the call and the instance returned; `made`
\* is the identity a new instance gets.
registry_get_parser(reg, lead_source, made) ==
    IF reg._parsers[lead_source] # NoInstance
    THEN [reg |-> reg, parser |-> reg._parsers[lead_source]]
    ELSE IF reg._parser_classes[lead_source] # "None"
    THEN IF Instantiable(reg._parser_classes[lead_source])
         THEN LET parser_instance == [class |-> reg._parser_classes[lead_source], id |-> made]
              IN  [reg |-> [reg EXCEPT !._parsers[lead_source] = parser_instance],
                   parser |-> parser_instance]
         ELSE [reg |-> reg, parser |-> NoInstance]
    ELSE [reg |-> reg, parser |-> NoInstance]

clear_cache(reg) == [reg EXCEPT !._parsers = [s \in RegistrySources |-> NoInstance]]

\* reload_parsers: the modules are reloaded, the table keeps the classes it
\* holds.
reload_parsers(reg) == clear_cache(reg)

Cached(reg) == {reg._parsers[s].id : s \in {t \in RegistrySources : reg._parsers[t] # NoInstance}}

InitRegistry ==
    /\ HandlerParked
    /\ ExecuteParked
    /\ MetricsParked
    /\ RetryParked
    /\ BreakerParked
    /\ BatchParked
    /\ DedupParked
    /\ LegacyParked
    /\ EngineParked
    /\ LogParked
    /\ PhoneParked
    /\ DetectorParked
    /\ registry = ParserRegistry
    /\ reg_made = 0
    /\ reg_seen = [s \in RegistrySources |-> NotAsked]
    /\ reg_retired = {}
    /\ reg_last = NoCall

RegisterParser ==
    \E s \in RegistrySources, class \in OfferedClasses :
        /\ registry' = register_parser(registry, s, class)
        /\ reg_seen' = IF issubclass_BaseParser(class)
                       THEN [reg_seen EXCEPT ![s] = NotAsked] ELSE reg_seen
        /\ reg_retired' = reg_retired \cup (Cached(registry) \ Cached(registry'))
        /\ reg_last' = [op |-> "register_parser", lead_source |-> s, class |-> class,
                        accepted |-> issubclass_BaseParser(class)]
        /\ UNCHANGED <<handler_vars, retry_vars, breaker_vars, batch_vars, dedup_vars,
                       legacy_vars, engine_vars, log_vars, phone_vars, detector_vars,
                       reg_made, metrics_vars, execute_vars>>

GetParser ==
    \E s \in RegistrySources :
        LET got == registry_get_parser(registry, s, reg_made + 1) IN
        /\ got.reg # registry => reg_made < MaxInstances
        /\ registry' = got.reg
        /\ reg_made' = IF got.reg # registry THEN reg_made + 1 ELSE reg_made
        /\ reg_seen' = [reg_seen EXCEPT ![s] = got.parser]
        /\ reg_last' = [op |-> "get_parser", lead_source |-> s, parser |-> got.parser,
                        prior |-> reg_seen[s]]
        /\ UNCHANGED <<handler_vars, retry_vars, breaker_vars, batch_vars, dedup_vars,
                       legacy_vars, engine_vars, log_vars, phone_vars, detector_vars,
                       reg_retired, metrics_vars, execute_vars>>

ClearCache ==
    /\ registry' = clear_cache(registry)
    /\ reg_seen' = [s \in RegistrySources |-> NotAsked]
    /\ reg_retired' = reg_retired \cup Cached(registry)
    /\ reg_last' = [op |-> "clear_cache"]
    /\ UNCHANGED <<handler_vars, retry_vars, breaker_vars, batch_vars, dedup_vars,
                   legacy_vars, engine_vars, log_vars, phone_vars, detector_vars,
                   reg_made, metrics_vars, execute_vars>>

ReloadParsers ==
    /\ registry' = reload_parsers(registry)
    /\ reg_seen' = [s \in RegistrySources |-> NotAsked]
    /\ reg_retired' = reg_retired \cup Cached(registry)
    /\ reg_last' = [op |-> "reload_parsers"]
    /\ UNCHANGED <<handler_vars, retry_vars, breaker_vars, batch_vars, dedup_vars,
                   legacy_vars, engine_vars, log_vars, phone_vars, detector_vars,
                   reg_made, metrics_vars, execute_vars>>

NextRegistry == RegisterParser \/ GetParser \/ ClearCache \/ ReloadParsers

SpecRegistry == InitRegistry /\ [][NextRegistry]_vars

(***************************************************************************)
(* The metrics collectors of a process over its invocations                *)
(* (src/src/utils/metrics.py 306-337, lambda_handler.py 58-63, 146-150).   *)
(* A collector is its buffer, a metric the number of the invocation that   *)
(* recorded it.                                                            *)
(***************************************************************************)
\* initialize_metrics: a new collector takes the place of the global one.
initialize_metrics(collectors) == Append(collectors, <<>>)

\* MetricsCollector.flush: the buffer is cleared whatever the backend does.
MetricsCollector_flush(buffer) == <<>>

\* MetricsCollector.put_metric on a buffer.
MetricsCollector_put_metric(buffer, metric) ==
    IF Len(buffer) + 1 >= metrics_batch_size
    THEN MetricsCollector_flush(Append(buffer, metric))
    ELSE Append(buffer, metric)

\* record_lambda_invocation: LambdaDuration and LambdaMemoryUsed.
record_lambda_invocation(buffer, metric) ==
    MetricsCollector_put_metric(MetricsCollector_put_metric(buffer, metric), metric)

InitMetrics ==
    /\ HandlerParked
    /\ ExecuteParked
    /\ RetryParked
    /\ BreakerParked
    /\ BatchParked
    /\ DedupParked
    /\ LegacyParked
    /\ EngineParked
    /\ LogParked
    /\ PhoneParked
    /\ DetectorParked
    /\ RegistryParked
    /\ met_collectors = <<>>
    /\ met_global = 0
    /\ met_services = 0
    /\ met_run \in [enable_custom_metrics : BOOLEAN, served : {0}, pc : {"idle"},
                    puts : {0}]

\* lambda_handler up to the dispatch: the collector is initialized when
\* custom metrics are enabled.
MetricsInvoke ==
    /\ met_run.pc = "idle"
    /\ met_run.served < MaxServed
    /\ met_collectors' = IF met_run.enable_custom_metrics
                         THEN initialize_metrics(met_collectors) ELSE met_collectors
    /\ met_global' = Len(met_collectors')
    /\ met_run' = [met_run EXCEPT !.served = @ + 1, !.pc = "dispatch", !.puts = 0]
    /\ UNCHANGED <<handler_vars, retry_vars, breaker_vars, batch_vars, dedup_vars,
                   legacy_vars, engine_vars, log_vars, phone_vars, detector_vars,
                   registry_vars, met_services, execute_vars>>

\* _process_s3_event: the service singletons are fetched, and constructed
\* when the process has none; they hold the facade of the global collector
\* of that moment.
MetricsGetServices ==
    /\ met_run.pc = "dispatch"
    /\ met_services' = IF met_services = 0 /\ met_global # 0 THEN met_global
                       ELSE met_services
    /\ met_run' = [met_run EXCEPT !.pc = "records"]
    /\ UNCHANGED <<handler_vars, retry_vars, breaker_vars, batch_vars, dedup_vars,
                   legacy_vars, engine_vars, log_vars, phone_vars, detector_vars,
                   registry_vars, met_collectors, met_global, execute_vars>>

\* A service or the processor records a metric.
MetricsServiceRecord ==
    /\ met_run.pc = "records"
    /\ met_run.puts < MaxPuts
    /\ met_collectors' =
          IF met_services = 0 THEN met_collectors
          ELSE [met_collectors EXCEPT ![met_services] =
                    MetricsCollector_put_metric(@, met_run.served)]
    /\ met_run' = [met_run EXCEPT !.puts = @ + 1]
    /\ UNCHANGED <<handler_vars, retry_vars, breaker_vars, batch_vars, dedup_vars,
                   legacy_vars, engine_vars, log_vars, phone_vars, detector_vars,
                   registry_vars, met_global, met_services, execute_vars>>

\* The handler records the invocation with the facade it gets from
\* get_email_parser_metrics.
MetricsHandlerRecord ==
    /\ met_run.pc \in {"dispatch", "records"}
    /\ met_collectors' =
          IF met_global = 0 THEN met_collectors
          ELSE [met_collectors EXCEPT ![met_global] =
                    record_lambda_invocation(@, met_run.served)]
    /\ met_run' = [met_run EXCEPT !.pc = "finally"]
    /\ UNCHANGED <<handler_vars, retry_vars, breaker_vars, batch_vars, dedup_vars,
                   legacy_vars, engine_vars, log_vars, phone_vars, detector_vars,
                   registry_vars, met_global, met_services, execute_vars>>

\* The finally block: flush_metrics on the global collector; the handler
\* returns.  An invocation that raised comes here without the handler's
\* record.
MetricsReturn ==
    /\ met_run.pc \in {"dispatch", "records", "finally"}
    /\ met_collectors' =
          IF met_global = 0 THEN met_collectors
          ELSE [met_collectors EXCEPT ![met_global] = MetricsCollector_flush(@)]
    /\ met_run' = [met_run EXCEPT !.pc = "idle"]
    /\ UNCHANGED <<handler_vars, retry_vars, breaker_vars, batch_vars, dedup_vars,
                   legacy_vars, engine_vars, log_vars, phone_vars, detector_vars,
                   registry_vars, met_global, met_services, execute_vars>>

NextMetrics ==
    \/ MetricsInvoke
    \/ MetricsGetServices
    \/ MetricsServiceRecord
    \/ MetricsHandlerRecord
    \/ MetricsReturn

SpecMetrics == InitMetrics /\ [][NextMetrics]_vars

(***************************************************************************)
(* CircuitBreaker.execute on its own: a breaker of any small configuration *)
(* protects a function that returns or raises and takes its time.          *)
(***************************************************************************)
ExecuteConfigs ==
    [failure_threshold : 1..MaxThreshold,
     recovery_timeout  : 1..MaxRecovery,
     success_threshold : 1..MaxThreshold,
     timeout           : 1..MaxTimeout]

ProtectedOutcomes == {Returned("done"), Raised([type |-> "ValueError", code |-> "",
                                                cause |-> "none"])}

InitExecute ==
    /\ HandlerParked
    /\ RetryParked
    /\ BatchParked
    /\ DedupParked
    /\ LegacyParked
    /\ EngineParked
    /\ LogParked
    /\ PhoneParked
    /\ DetectorParked
    /\ RegistryParked
    /\ MetricsParked
    /\ breaker \in {CircuitBreaker(c) : c \in ExecuteConfigs}
    /\ now = StartTime
    /\ cb_history = NoHistory
    /\ exec_last = NoExecute

Execute ==
    \E o \in ProtectedOutcomes, duration \in 0..(MaxTimeout + 1) :
        LET r == execute(breaker, now, o, duration) IN
        /\ breaker.failure_count < MaxFailures
        /\ now + duration <= MaxTime
        /\ breaker' = r.cb
        /\ now' = IF r.invoked THEN now + duration ELSE now
        /\ exec_last' = [op |-> "execute", prev |-> breaker, at |-> now, func |-> o,
                         duration |-> duration, invoked |-> r.invoked, out |-> r.out,
                         recorded |-> r.recorded]
        /\ UNCHANGED <<handler_vars, retry_vars, batch_vars, dedup_vars, legacy_vars,
                       engine_vars, log_vars, phone_vars, detector_vars, registry_vars,
                       metrics_vars, cb_history>>

\* Time passes between calls.
ExecuteTick ==
    /\ now < MaxTime
    /\ now' = now + 1
    /\ exec_last' = [op |-> "tick"]
    /\ UNCHANGED <<handler_vars, retry_vars, batch_vars, dedup_vars, legacy_vars,
                   engine_vars, log_vars, phone_vars, detector_vars, registry_vars,
                   metrics_vars, breaker, cb_history>>

NextExecute == Execute \/ ExecuteTick

SpecExecute == InitExecute /\ [][NextExecute]_vars

(***************************************************************************)
(* Properties of the loop over Records.                                    *)
(***************************************************************************)
\* What the call log and the result entries hold about one key.
CallsOf(op, key) == {i \in DOMAIN calls : calls[i].op = op /\ calls[i].key = key}
EntriesOf(status, key) ==
    {j \in DOMAIN results : results[j].object_key = key /\ results[j].status = status}

\* The record a step handled, and the kinds of result the engine gave it.
RecordOf(st) == event.Records[st.record]
Named(record) == record.bucket # "" /\ record.key # ""
IsSuccess(result) ==
    result.kind = "result" /\ result.success /\ result.lead_data # NoLead
IsFailure(result) ==
    result.kind = "result" /\ ~(result.success /\ result.lead_data # NoLead)
StepRaised(st) ==
    st.read.raised \/ st.result.kind = "raised" \/ st.sent.raised \/ st.deleted.raised

\* C1: for a record whose result is a success carrying a lead, the publish is
\* called once with the invocation's correlation id as message group; a delete
\* of the key is requested only after that publish returned, and never when it
\* raised; a 'success' entry is there only when the publish and the delete both
\* returned, and it carries the key, the message id the publish returned, the
\* lead's source and the result's processing time.
C1_PublishThenDelete ==
    \A n \in DOMAIN steps :
        LET st == steps[n]
            key == RecordOf(st).key
            sends == CallsOf("send_lead_message", key)
            deletes == CallsOf("delete_object", key)
        IN  IsSuccess(st.result) =>
              /\ Cardinality(sends) = 1
              /\ \A i \in sends : calls[i].group = correlation_id
              /\ \A d \in deletes : \E i \in sends : i < d /\ ~calls[i].raised
              /\ (\E i \in sends : calls[i].raised) => deletes = {}
              /\ \A j \in EntriesOf("success", key) :
                    /\ \E i \in sends : ~calls[i].raised
                    /\ \E d \in deletes : ~calls[d].raised
                    /\ results[j] = [object_key |-> key,
                                     status |-> "success",
                                     message_id |-> st.sent.value,
                                     lead_source |-> st.result.lead_data.lead_source,
                                     processing_time_ms |-> st.result.processing_time_ms]
              /\ (~st.sent.raised /\ ~st.deleted.raised)
                    => Cardinality(EntriesOf("success", key)) = 1

\* A batch in which one success was published, deleted and reported, and the
\* publish of another raised.
C1_Witness ==
    /\ pc = "done"
    /\ \E n \in DOMAIN steps :
          /\ IsSuccess(steps[n].result)
          /\ EntriesOf("success", RecordOf(steps[n]).key) # {}
    /\ \E n \in DOMAIN steps : IsSuccess(steps[n].result) /\ steps[n].sent.raised

\* C2: for a record whose result is a failure, nothing is published, a delete
\* of its key is requested, failed_count grows by exactly one, and one 'failed'
\* entry with the result's error message and processing time is appended.
C2_FailureLeg ==
    \A n \in DOMAIN steps :
        LET st == steps[n]
            key == RecordOf(st).key
        IN  IsFailure(st.result) =>
              /\ CallsOf("send_lead_message", key) = {}
              /\ CallsOf("delete_object", key) # {}
              /\ st.failed = 1
              /\ st.processed = 0
              /\ \E j \in EntriesOf("failed", key) :
                    /\ results[j].error = st.result.error_message
                    /\ results[j].processing_time_ms = st.result.processing_time_ms

\* C3: a record whose handling raised gets exactly one 'error' entry and is
\* counted in failed_count and not in processed_count; the loop still handles
\* every record of the batch; the entries are in record order; and the batch
\* is answered with status 200 carrying the counts and the entries.
C3_ErrorsAreLocal ==
    /\ \A n \in DOMAIN steps :
          LET st == steps[n] IN
          /\ st.record = n
          /\ StepRaised(st) =>
                /\ Cardinality(EntriesOf("error", RecordOf(st).key)) = 1
                /\ st.failed >= 1
                /\ st.processed = 0
    /\ \A j, k \in DOMAIN results :
          j < k => \E m, n \in DOMAIN steps :
                      /\ m <= n
                      /\ RecordOf(steps[m]).key = results[j].object_key
                      /\ RecordOf(steps[n]).key = results[k].object_key
    /\ (pc \in {"finally", "done"} /\ steps # <<>>) =>
          /\ Len(steps) = Len(event.Records)
          /\ response.statusCode = 200
          /\ response.body.results = results
          /\ response.body.failed_count = failed_count
          /\ response.body.processed_count = processed_count

\* A batch answered after its first record raised and its second succeeded.
C3_Witness ==
    /\ pc = "done"
    /\ Len(steps) = 2
    /\ StepRaised(steps[1])
    /\ steps[2].processed = 1
    /\ response.statusCode = 200

\* C4, as stated: once the handler is done, a delete has been requested for
\* every record that names a bucket and a key.
C4_AlwaysDeleted ==
    pc = "done" =>
        \A n \in DOMAIN steps :
            Named(RecordOf(steps[n])) =>
                CallsOf("delete_object", RecordOf(steps[n]).key) # {}

\* C4, amended: a delete is requested for a record that names a bucket and a
\* key exactly when the engine returned a result for it and that result is a
\* failure or its publish returned; nothing is deleted when the read, the
\* engine or the publish raised.
C4_DeletedIffHandled ==
    \A n \in DOMAIN steps :
        LET st == steps[n]
            deletes == CallsOf("delete_object", RecordOf(st).key)
        IN  Named(RecordOf(st)) =>
              /\ deletes # {} <=>
                    \/ IsFailure(st.result)
                    \/ IsSuccess(st.result) /\ ~st.sent.raised
              /\ Cardinality(deletes) <= 1

\* A batch where one object was deleted after a failure and another was kept
\* because its read raised.
C4_Witness ==
    /\ pc = "done"
    /\ \E n \in DOMAIN steps :
          /\ IsFailure(steps[n].result)
          /\ CallsOf("delete_object", RecordOf(steps[n]).key) # {}
    /\ \E n \in DOMAIN steps :
          /\ steps[n].read.raised
          /\ CallsOf("delete_object", RecordOf(steps[n]).key) = {}

\* The publishes in which the queue took the message.
Delivered == {i \in DOMAIN calls : /\ calls[i].op = "send_lead_message"
                                   /\ \E k \in DOMAIN calls[i].client :
                                         calls[i].client[k] = "ok"}

LastOutcome(call) == call.client[Len(call.client)]

\* C28: a get_object or send_lead_message whose client call succeeded
\* returns, whatever becomes of the metric it records.
C28_MetricNeverChangesOutcome ==
    \A i \in DOMAIN calls :
        (/\ calls[i].op \in {"get_object", "send_lead_message"}
         /\ Len(calls[i].client) > 0
         /\ LastOutcome(calls[i]) = "ok") => ~calls[i].raised

(***************************************************************************)
(* Properties of the handler composed with the engine.                     *)
(***************************************************************************)
\* An email the parsers accept: well-formed, detected as a source that has a
\* parser class, with the contact fields the parser requires.
ValidLeadEmail(email) ==
    /\ email.mime_ok
    /\ email.content = "ok"
    /\ get_parser(detect_lead_source(email)) # NoParser
    /\ ~parse(get_parser(detect_lead_source(email)), email).raised

\* An email that matches no detection rule.
UndetectedEmail(email) ==
    email.mime_ok /\ email.content = "ok" /\ detect_lead_source(email) = "unknown"

ServicesReturned(st) == ~st.read.raised /\ ~st.sent.raised /\ ~st.deleted.raised

\* C5: a valid lead email of a source with a registered parser comes back from
\* the engine as a success, is published and counted in processed_count; an
\* email matching no rule is counted in failed_count; a delete is requested
\* for both; a batch of one of each ends with processed_count 1 and
\* failed_count 1.
C5_EndToEnd ==
    \A n \in DOMAIN steps :
        LET st == steps[n]
            key == RecordOf(st).key
        IN  st.email # NoEmail =>
              /\ ValidLeadEmail(st.email) =>
                    /\ IsSuccess(st.result)
                    /\ CallsOf("send_lead_message", key) # {}
                    /\ ServicesReturned(st) =>
                          /\ st.processed = 1
                          /\ CallsOf("delete_object", key) # {}
              /\ UndetectedEmail(st.email) =>
                    /\ IsFailure(st.result)
                    /\ st.failed >= 1
                    /\ ServicesReturned(st) => CallsOf("delete_object", key) # {}
              /\ (/\ pc = "done" /\ n = 1 /\ Len(steps) = 2
                  /\ steps[2].email # NoEmail
                  /\ ValidLeadEmail(st.email) /\ UndetectedEmail(steps[2].email)
                  /\ ServicesReturned(st) /\ ServicesReturned(steps[2]))
                    => processed_count = 1 /\ failed_count = 1

\* C6: when the batch is answered, processed_count + failed_count is the
\* number of records; a record without a bucket or a key is counted as failed
\* and nothing is read, published or deleted for it; the response carries the
\* entries.
C6_Accounting ==
    /\ \A n \in DOMAIN steps :
          ~Named(RecordOf(steps[n])) =>
              /\ steps[n].failed = 1
              /\ steps[n].processed = 0
              /\ steps[n].entries = 0
              /\ steps[n].read = NotCalled
              /\ steps[n].sent = NotCalled
              /\ steps[n].deleted = NotCalled
    /\ (pc \in {"finally", "done"} /\ response.statusCode = 200
            /\ "results" \in DOMAIN response.body) =>
          /\ processed_count + failed_count = Len(event.Records)
          /\ response.body.processed_count + response.body.failed_count
                = Len(event.Records)
          /\ response.body.results = results

(***************************************************************************)
(* Properties of lambda_handler.                                           *)
(***************************************************************************)
Answered == pc \in {"finally", "done"}

StoragePath ==
    \/ pc = "records"
    \/ Answered /\ response.statusCode = 200
                /\ response.body.message = "S3 event processing completed"

DirectAnswer ==
    /\ Answered
    /\ response = [statusCode |-> 200,
                   body |-> [message |-> "Direct invocation not yet implemented",
                             correlation_id |-> correlation_id]]

UnsupportedAnswer ==
    /\ Answered
    /\ response.statusCode = 500
    /\ response.body.error = "UNKNOWN_ERROR"
    /\ response.body.message = "Unsupported event type: unknown"

RejectedSetting(environment) ==
    \/ ~validate_sqs_url(environment.SQS_QUEUE_URL)
    \/ ~validate_log_level(environment.LOG_LEVEL)
    \/ ~validate_max_size(environment.MAX_EMAIL_SIZE_MB)

\* C8: with a setting the validators reject, the invocation is answered 500
\* with the taxonomy's configuration code and a details map, not with
\* UNEXPECTED_ERROR.
C8_ConfigurationError ==
    (pc = "done" /\ RejectedSetting(env)) =>
        /\ response.statusCode = 500
        /\ response.body.error \in {"CONFIG_INVALID", "CONFIG_MISSING"}
        /\ "details" \in DOMAIN response.body

\* C9: the flush is attempted exactly once in an invocation, as its last
\* step; it leaves the response as it was, whether it fails or not, and no
\* exception leaves the handler.
C9_FlushOnce ==
    /\ [](pc \in {"records", "finally"} => flush_calls = 0)
    /\ [](pc = "done" => flush_calls = 1 /\ ~escaped /\ response # NoResponse)
    /\ [][pc = "finally" =>
            /\ pc' = "done"
            /\ flush_calls' = flush_calls + 1
            /\ response' = response
            /\ ~escaped']_vars
    /\ [][pc = "done" => pc' = "idle" /\ invocation' = invocation]_vars

\* A batch was answered 200 although the flush failed.
C9_Witness ==
    /\ pc = "done"
    /\ flush_calls = 1
    /\ flush_warned
    /\ response.statusCode = 200
    /\ steps # <<>>

\* C10: a service call that ends in retry exhaustion after the client failed
\* transiently on every attempt has made three attempts.
C10_TransientRetried ==
    \A i \in DOMAIN calls :
        (/\ calls[i].raised
         /\ \A k \in DOMAIN calls[i].client : calls[i].client[k] = "InternalError")
        => Len(calls[i].client) = ServiceRetryConfig.max_attempts

(***************************************************************************)
(* Properties of execute_with_retry.                                       *)
(***************************************************************************)
RetryRan == retry_result # NotRun

\* The claim's condition for invoking the function again after its i-th
\* invocation failed.
RetriedAfter(i) ==
    /\ retry_func[i] # "ok"
    /\ i < retry_config.max_attempts
    /\ retry_func[i] \notin retry_config.non_retryable_exceptions
    /\ retry_func[i] \in retry_config.retryable_exceptions

\* C11: with max_attempts at least 1, the function is invoked once more after
\* its i-th invocation exactly when that invocation failed, i < max_attempts,
\* and the failure is of no non-retryable kind and of a retryable kind; so it
\* is invoked between 1 and max_attempts times, and a success on an attempt is
\* returned with no further invocation.
C11_RetryOnlyWhenAllowed ==
    (RetryRan /\ retry_config.max_attempts >= 1) =>
        /\ retry_result.calls >= 1
        /\ retry_result.calls <= retry_config.max_attempts
        /\ \A i \in 1..(MaxAttempts - 1) :
              (i + 1 <= retry_result.calls) <=> (i <= retry_result.calls /\ RetriedAfter(i))
        /\ \A i \in 1..retry_result.calls :
              retry_func[i] = "ok" =>
                  /\ retry_result.calls = i
                  /\ ~retry_result.raised
                  /\ retry_result.value = ResultOf(i)

\* A failure of a kind in both sets ended a run that had attempts left.
C11_Witness ==
    /\ RetryRan
    /\ retry_config.max_attempts >= 2
    /\ retry_func[1] \in retry_config.retryable_exceptions
                            \cap retry_config.non_retryable_exceptions
    /\ retry_result.calls = 1
    /\ retry_result.raised

\* C12: when each of the max_attempts invocations fails with a retryable
\* failure, the function was invoked max_attempts times with max_attempts - 1
\* waits, and the error raised is the retry-exhausted error whose cause is the
\* failure of the last attempt and which records max_attempts.
C12_Exhaustion ==
    (/\ RetryRan
     /\ retry_config.max_attempts >= 1
     /\ \A i \in 1..retry_config.max_attempts :
           /\ retry_func[i] \in retry_config.retryable_exceptions
           /\ retry_func[i] \notin retry_config.non_retryable_exceptions)
    => /\ retry_result.calls = retry_config.max_attempts
       /\ retry_result.sleeps = retry_config.max_attempts - 1
       /\ retry_result.raised
       /\ retry_result.exc.type = "RetryExhaustedError"
       /\ retry_result.exc.code = "RETRY_EXHAUSTED"
       /\ retry_result.exc.cause = retry_func[retry_config.max_attempts]
       /\ retry_result.exc.max_attempts = retry_config.max_attempts

\* Three retryable failures, the last of another kind than the first.
C12_Witness ==
    /\ RetryRan
    /\ retry_config.max_attempts = 3
    /\ \A i \in 1..3 :
          /\ retry_func[i] \in retry_config.retryable_exceptions
          /\ retry_func[i] \notin retry_config.non_retryable_exceptions
    /\ retry_func[1] # retry_func[3]
    /\ retry_result.calls = 3

\* C29: a run that returns no result raises the retry-exhausted error, its
\* cause the failure of the last invocation; a first failure that is of a
\* non-retryable kind or of no retryable kind ends the run after that one
\* invocation, with no wait.
C29_AlwaysRetryExhausted ==
    RetryRan =>
        /\ retry_result.raised =>
              /\ retry_result.exc.type = "RetryExhaustedError"
              /\ retry_result.exc.code = "RETRY_EXHAUSTED"
              /\ retry_result.calls >= 1 =>
                    retry_result.exc.cause = retry_func[retry_result.calls]
        /\ (/\ retry_config.max_attempts >= 1
            /\ retry_func[1] # "ok"
            /\ \/ retry_func[1] \in retry_config.non_retryable_exceptions
               \/ retry_func[1] \notin retry_config.retryable_exceptions)
           => /\ retry_result.raised
              /\ retry_result.calls = 1
              /\ retry_result.sleeps = 0
              /\ retry_result.exc.cause = retry_func[1]

\* A first failure of no retryable kind ended a run that had attempts left.
C29_Witness ==
    /\ RetryRan
    /\ retry_config.max_attempts = 3
    /\ retry_func[1] = "ValueError"
    /\ retry_config.retryable_exceptions = {"ClientError"}
    /\ retry_config.non_retryable_exceptions = {"NoCredentialsError"}
    /\ retry_result.raised
    /\ retry_result.exc.type = "RetryExhaustedError"
    /\ retry_result.calls = 1

(***************************************************************************)
(* Properties of the circuit breaker.                                      *)
(***************************************************************************)
\* Whether a can_execute call made right now would be let through.
Allowed == can_execute(breaker, now).allowed

\* C13: starting closed, the record_failure call that makes failure_threshold
\* failures in a row opens the breaker and can_execute then answers false; a
\* record_success while closed resets failure_count to zero and leaves the
\* breaker closed; a closed breaker leaves that state only by opening on a
\* record_failure that completes such a run.
C13_OpensAtThreshold ==
    /\ [][(cb_history'.op = "record_failure" /\ cb_history'.streak_closed
            /\ cb_history'.streak = breaker.config.failure_threshold)
          => (breaker'.state = "open" /\ ~Allowed')]_vars
    /\ [][(breaker.state = "closed" /\ cb_history'.op = "record_success")
          => (breaker'.state = "closed" /\ breaker'.failure_count = 0)]_vars
    /\ [][(breaker.state = "closed" /\ breaker'.state # "closed")
          => (/\ cb_history'.op = "record_failure"
              /\ breaker'.state = "open"
              /\ cb_history'.streak >= breaker.config.failure_threshold)]_vars

\* A breaker of threshold two or more has just been opened by a run of
\* failures that began while it was closed.
C13_Witness ==
    /\ breaker.config.failure_threshold >= 2
    /\ cb_history.op = "record_failure"
    /\ cb_history.prev = "closed"
    /\ cb_history.streak_closed
    /\ cb_history.streak = breaker.config.failure_threshold
    /\ breaker.state = "open"

\* C14: while open, a can_execute call made before recovery_timeout has
\* passed since the last recorded failure answers false and changes nothing;
\* one made after it has passed answers true, makes the breaker half-open and
\* zeroes success_count; an open breaker changes state in no other way, and
\* in particular never closes directly.
C14_OpenUntilTimeout ==
    /\ [][(breaker.state = "open" /\ cb_history'.op = "can_execute")
          => IF now - cb_history.last_failure_at < breaker.config.recovery_timeout
             THEN ~cb_history'.allowed /\ breaker' = breaker
             ELSE /\ cb_history'.allowed
                  /\ breaker'.state = "half_open"
                  /\ breaker'.success_count = 0]_vars
    /\ [][breaker.state = "open" => breaker'.state # "closed"]_vars
    /\ [][(breaker.state = "open" /\ breaker'.state # "open")
          => cb_history'.op = "can_execute"]_vars

\* An open breaker that had counted a success in an earlier trial has just
\* been let through after the timeout.
C14_Witness ==
    /\ cb_history.op = "can_execute"
    /\ cb_history.prev = "open"
    /\ cb_history.allowed
    /\ breaker.state = "half_open"
    /\ cb_history.trial_failed_at # 0
    /\ now - cb_history.last_failure_at >= breaker.config.recovery_timeout

\* C15: a record_success while half-open closes the breaker exactly when it
\* is the success_threshold-th success of that half-open period, and then
\* failure_count is zero; otherwise the breaker stays half-open; the breaker
\* closes in no other way.
C15_ClosesAtThreshold ==
    /\ [][(breaker.state = "half_open" /\ cb_history'.op = "record_success")
          => IF cb_history'.trial_successes >= breaker.config.success_threshold
             THEN breaker'.state = "closed" /\ breaker'.failure_count = 0
             ELSE breaker'.state = "half_open"]_vars
    /\ [][(breaker.state # "closed" /\ breaker'.state = "closed")
          => (/\ breaker.state = "half_open"
              /\ cb_history'.op = "record_success"
              /\ cb_history'.trial_successes = breaker.config.success_threshold)]_vars

\* A breaker of success threshold two or more has just been closed.
C15_Witness ==
    /\ breaker.config.success_threshold >= 2
    /\ cb_history.op = "record_success"
    /\ cb_history.prev = "half_open"
    /\ breaker.state = "closed"
    /\ breaker.failure_count = 0

\* C16: a record_failure while half-open opens the breaker and can_execute
\* then answers false; it keeps answering false until recovery_timeout has
\* passed since that failure; and the successes of the failed trial are not
\* counted in a later one: in every half-open period success_count is the
\* number of successes recorded in that period.
C16_TrialFailureReopens ==
    /\ [][(breaker.state = "half_open" /\ cb_history'.op = "record_failure")
          => (breaker'.state = "open" /\ ~Allowed')]_vars
    /\ [][(/\ breaker.state = "open"
           /\ cb_history'.op = "can_execute"
           /\ cb_history.trial_failed_at # 0
           /\ now - cb_history.trial_failed_at < breaker.config.recovery_timeout)
          => (~cb_history'.allowed /\ breaker'.state = "open")]_vars
    /\ [](breaker.state = "half_open"
          => breaker.success_count = cb_history.trial_successes)

\* A trial that had counted a success has just failed.
C16_Witness ==
    /\ cb_history.op = "record_failure"
    /\ cb_history.prev = "half_open"
    /\ cb_history.trial_successes >= 1
    /\ breaker.state = "open"

(***************************************************************************)
(* Properties of send_batch_messages.                                      *)
(***************************************************************************)
RECURSIVE Flatten(_)
Flatten(groups) ==
    IF groups = <<>> THEN <<>> ELSE Head(groups) \o Flatten(Tail(groups))

\* C17: the batches handed to the client are, in order, consecutive pieces
\* of the list of at most 10 leads each, none of them empty and all but the
\* last full; a call that returns has made ceil(n/10) of them (10, 10 and 3
\* for 23 leads) and returns the ids of exactly the entries the client took,
\* in order; and the call raises only when a batch call itself raised, never
\* because of entries the client rejected.
C17_BatchesOfTen ==
    LET n == Len(batch_input.leads)
        sent == batch_run.sent
    IN  /\ \A g \in 1..Len(sent) : Len(sent[g]) \in 1..10
        /\ \A g \in 1..(Len(sent) - 1) : Len(sent[g]) = 10
        /\ Flatten(sent) = SubSeq(batch_input.leads, 1, Len(Flatten(sent)))
        /\ batch_run.pc = "returned" =>
             /\ Len(sent) * 10 >= n
             /\ (Len(sent) - 1) * 10 < n \/ n = 0
             /\ Flatten(sent) = batch_input.leads
             /\ n = 23 => [g \in 1..Len(sent) |-> Len(sent[g])] = <<10, 10, 3>>
             /\ batch_run.ids =
                  [k \in 1..Len(SelectSeq(batch_input.leads,
                                          LAMBDA l : l \notin batch_input.failing)) |->
                      MessageIdOf(SelectSeq(batch_input.leads,
                                            LAMBDA l : l \notin batch_input.failing)[k])]
        /\ batch_run.pc = "raised" => batch_input.raises_at = Len(sent)
        /\ batch_input.raises_at = 0 => batch_run.pc # "raised"

\* 23 leads, one rejected inside the first batch and one inside the last,
\* have been sent in three batches and 21 ids returned.
C17_Witness ==
    /\ Len(batch_input.leads) = 23
    /\ batch_input.failing = {4, 23}
    /\ batch_run.pc = "returned"
    /\ Len(batch_run.sent) = 3
    /\ Len(batch_run.ids) = 21

(***************************************************************************)
(* Properties of the deduplication id.                                     *)
(***************************************************************************)
\* The four fields the id is derived from.  A missing resale reference and
\* an empty one are the same to the derivation.
DedupKey(lead_data) ==
    <<lead_data.lead_source, lead_data.contact_info.email,
      OrEmpty(lead_data.resale_reference), lead_data.receipt_date>>

SameKeySameId ==
    \A j, k \in 1..Len(dedup_ids) :
        DedupKey(dedup_leads[dedup_ids[j].lead]) = DedupKey(dedup_leads[dedup_ids[k].lead])
        => dedup_ids[j].id = dedup_ids[k].id

LegacyCalls(call, key) ==
    Cardinality({k \in 1..Len(legacy_run.log) :
                   legacy_run.log[k] = [call |-> call, key |-> key]})

\* Whether the claim has the object queued: one of the four sources named in
\* its first text part, the markers taken in the parser's order, and an
\* email extracted.
Queueable(obj) ==
    /\ obj.email # ""
    /\ obj.text_plain # <<>>
    /\ \/ "@daltonssupportmail.com" \in obj.text_plain[1]
       \/ "@rightbiz.co.uk" \in obj.text_plain[1]
       \/ "@homecare.co.uk" \in obj.text_plain[1]
       \/ "@BusinessesForSale.com" \in obj.text_plain[1]

\* C19: in a run of the legacy handler in which nothing has raised, every
\* object walked so far has been deleted exactly once and is queued iff its
\* source is one of the four and its email is non-empty; no message is
\* published while the walk lasts, so every delete comes before every
\* publish; a run that ends has deleted every listed object once, published
\* exactly one message per queued record and answers 200 with the queued
\* list; and for an empty listing nothing is deleted or published.
C19_LegacyWalk ==
    LET objects == legacy_input.objects
        log == legacy_run.log
        queued == {legacy_run.leads_to_upload[k].obj_key :
                     k \in 1..Len(legacy_run.leads_to_upload)}
    IN  legacy_run.pc # "raised" =>
        /\ \A k \in 1..Len(objects) :
             /\ LegacyCalls("delete_object", objects[k].Key) =
                  (IF k < legacy_run.idx THEN 1 ELSE 0)
             /\ k < legacy_run.idx =>
                  (objects[k].Key \in queued <=> Queueable(objects[k]))
             /\ LegacyCalls("send_message", objects[k].Key) <= 1
        /\ Cardinality(queued) = Len(legacy_run.leads_to_upload)
        /\ legacy_run.pc \in {"start", "walk"} =>
             \A k \in 1..Len(log) : log[k].call = "delete_object"
        /\ \A j, k \in 1..Len(log) :
             (log[j].call = "delete_object" /\ log[k].call = "send_message") => j < k
        /\ legacy_run.pc = "done" =>
             /\ legacy_run.response.statusCode = 200
             /\ legacy_run.response.lead_list = legacy_run.leads_to_upload
             /\ \A k \in 1..Len(objects) :
                  /\ LegacyCalls("delete_object", objects[k].Key) = 1
                  /\ LegacyCalls("send_message", objects[k].Key) =
                       (IF objects[k].Key \in queued THEN 1 ELSE 0)
             /\ objects = <<>> => log = <<>>

\* A run over two objects has ended: one was queued and published, the
\* other, of a source without a branch, only deleted.
C19_Witness ==
    /\ legacy_run.pc = "done"
    /\ Len(legacy_input.objects) = 2
    /\ Len(legacy_run.leads_to_upload) = 1
    /\ Len(legacy_run.log) = 3
    /\ \E k \in 1..2 :
         /\ get_lead_source(legacy_input.objects[k].text_plain) = "nda"
         /\ legacy_input.objects[k].email # ""

(***************************************************************************)
(* Properties of the engine's catch boundary.                              *)
(***************************************************************************)
EngineRan == engine_result.raised \/ engine_result.value.kind = "result"

\* C20: process_email_from_bytes never raises, and what it returns has a
\* lead and no error message when success is true, an error message and no
\* lead when success is false.
C20_NeverRaises ==
    EngineRan =>
        /\ ~engine_result.raised
        /\ engine_result.value.success =>
             (engine_result.value.lead_data # NoLead
              /\ engine_result.value.error_message = None)
        /\ ~engine_result.value.success =>
             (engine_result.value.lead_data = NoLead
              /\ engine_result.value.error_message # None)

(***************************************************************************)
(* Properties of the log.                                                  *)
(***************************************************************************)
\* C21: every log event of an invocation carries the correlation id of that
\* invocation, whichever component emitted it.
C21_CorrelationEverywhere ==
    \A k \in 1..Len(log_events) :
        log_events[k].event.correlation_id = log_events[k].invocation

(***************************************************************************)
(* Properties of phone validation.                                         *)
(***************************************************************************)
DigitsOf(string) == Len(SelectSeq(string, IsDigit))

\* C22: the normalized value of an accepted phone string is accepted in its
\* turn, and is its own normalized value.
C22_NormalizationIdempotent ==
    Len(phone_results) = 2 =>
        /\ phone_results[2].valid
        /\ phone_results[2].normalized = phone_results[1].normalized

\* C23: a string with fewer than 7 digits in it is not accepted.
C23_SevenDigits ==
    (Len(phone_results) >= 1 /\ DigitsOf(phone_input) < 7) => ~phone_results[1].valid

(***************************************************************************)
(* Properties of the detector.                                             *)
(***************************************************************************)
\* The score the rule has by the weights alone.
WeighedScore(rule, email) ==
    (IF email.sender_domain \in rule.sender_domains THEN 10 ELSE 0)
    + 8 * email.sender_hits[rule.lead_source]
    + 5 * email.subject_hits[rule.lead_source]
    + 2 * email.content_hits[rule.lead_source]

\* C24: the answer is 'unknown' iff every rule of the table, custom rules
\* included, has a score of zero by the weights 10, 8, 5 and 2; otherwise it
\* is the source of a rule of the highest score, and of the lowest priority
\* number among the rules of that score.
C24_WeighedDetection ==
    \A k \in 1..Len(det_seen) :
        LET email == det_seen[k].email
            answer == det_seen[k].answer
            score(i) == WeighedScore(det_rules[i], email)
        IN  /\ answer = "unknown" <=> \A i \in DOMAIN det_rules : score(i) = 0
            /\ answer # "unknown" =>
                 \E i \in DOMAIN det_rules :
                    /\ det_rules[i].lead_source = answer
                    /\ \A j \in DOMAIN det_rules :
                         \/ score(j) < score(i)
                         \/ score(j) = score(i)
                            /\ det_rules[i].priority <= det_rules[j].priority

(***************************************************************************)
(* Properties of the parser registry.                                      *)
(***************************************************************************)
JustGot == reg_last.op = "get_parser"

\* What the four statements share: a repeated lookup gives the same instance,
\* a lookup never gives an instance the cache had dropped nor one of a class
\* other than the registered one, and a cached instance is of a source with
\* a registered class.
RegistryConsistent ==
    /\ JustGot /\ reg_last.prior # NotAsked => reg_last.parser = reg_last.prior
    /\ JustGot /\ reg_last.parser # NoInstance =>
         /\ reg_last.parser.class = registry._parser_classes[reg_last.lead_source]
         /\ reg_last.parser.id \notin reg_retired
    /\ \A s \in RegistrySources :
         registry._parsers[s] # NoInstance =>
            /\ registry._parser_classes[s] # "None"
            /\ registry._parsers[s].class = registry._parser_classes[s]

\* C25, as stated: get_parser gives nothing iff no class is registered for
\* the source; lookups with no registration or cache clear between them give
\* the same instance; the lookup after a registration gives an instance of the
\* registered class and never one cached before; every cached instance is of
\* a source with a registered class.
C25_AbsentIffUnregistered ==
    /\ RegistryConsistent
    /\ JustGot =>
         (reg_last.parser = NoInstance
            <=> registry._parser_classes[reg_last.lead_source] = "None")

\* C25, as the code has it: get_parser gives nothing iff no class is
\* registered for the source or the registered class cannot be instantiated;
\* the other three statements as above.
C25_AbsentIffNoInstance ==
    /\ RegistryConsistent
    /\ JustGot =>
         (reg_last.parser = NoInstance
            <=> \/ registry._parser_classes[reg_last.lead_source] = "None"
                \/ ~Instantiable(registry._parser_classes[reg_last.lead_source]))

\* A lookup after a registration that replaced a class with a cached instance
\* gave a new instance of the new class.
C25_Witness ==
    /\ JustGot
    /\ reg_last.parser.class = "CustomParser"
    /\ reg_last.lead_source = "rightbiz"
    /\ reg_retired # {}
    /\ reg_last.prior = NotAsked

(***************************************************************************)
(* Properties of the metrics collectors.                                   *)
(***************************************************************************)
\* C27: with custom metrics enabled, once an invocation has returned, no
\* collector of the process holds a metric that invocation recorded, in the
\* first invocation and in the later ones.
C27_NothingLeftUnflushed ==
    (met_run.pc = "idle" /\ met_run.enable_custom_metrics /\ met_run.served >= 1) =>
        \A c \in DOMAIN met_collectors :
            \A k \in DOMAIN met_collectors[c] : met_collectors[c][k] # met_run.served

(***************************************************************************)
(* Properties of CircuitBreaker.execute.                                   *)
(***************************************************************************)
\* C30: an execute on a breaker that is open with the recovery timeout not
\* elapsed raises the domain error, does not invoke the function and leaves
\* state, failure_count, success_count and last_failure_time as they were;
\* an execute that invokes the function calls exactly one of record_success
\* and record_failure, record_failure when the function raised or took longer
\* than the timeout.
C30_ExecuteFrame ==
    exec_last.op = "execute" =>
        LET prev == exec_last.prev
            gate == can_execute(prev, exec_last.at).cb
            failed == exec_last.func.raised \/ exec_last.duration > prev.config.timeout
        IN  /\ (/\ prev.state = "open"
                /\ exec_last.at - prev.last_failure_time < prev.config.recovery_timeout)
               => /\ ~exec_last.invoked
                  /\ exec_last.out = Raised(BreakerOpenError)
                  /\ exec_last.recorded = <<>>
                  /\ breaker.state = prev.state
                  /\ breaker.failure_count = prev.failure_count
                  /\ breaker.success_count = prev.success_count
                  /\ breaker.last_failure_time = prev.last_failure_time
            /\ exec_last.invoked =>
                  /\ Len(exec_last.recorded) = 1
                  /\ exec_last.recorded[1] = (IF failed THEN "record_failure"
                                              ELSE "record_success")
                  /\ breaker = IF failed
                               THEN record_failure(gate, exec_last.at + exec_last.duration)
                               ELSE record_success(gate)
                  /\ failed <=> exec_last.out.raised

\* A call was rejected by a breaker that two failures had opened.
C30_Witness ==
    /\ exec_last.op = "execute"
    /\ exec_last.prev.state = "open"
    /\ ~exec_last.invoked
    /\ exec_last.prev.failure_count >= 2

\* A trial call that returned, but too late, opened the breaker again.
C30_SlowCallCounted ==
    /\ exec_last.op = "execute"
    /\ exec_last.prev.state = "half_open"
    /\ ~exec_last.func.raised
    /\ exec_last.duration > exec_last.prev.config.timeout
    /\ breaker.state = "open"

====
